---- MODULE Spec2Model ----
(***************************************************************************)
(* Model of the json:api server of neuronlabs/server-jsonapi: the request  *)
(* handlers of the API, their handler chains (before hook, core handler,   *)
(* after hook), the DefaultHandler and the transactions they open on the   *)
(* storage.                                                                *)
(*                                                                         *)
(* One request is served at a time.  A request handler is one action: it   *)
(* runs the handler's code from the first line to the return, on a         *)
(* context record c that carries the storage, the transaction, the log of  *)
(* every call made (trace) and the response written (resp).  What the      *)
(* collaborators decide (a hook or a storage call returning an error, the  *)
(* request's input) is drawn with \E.                                      *)
(***************************************************************************)
EXTENDS Naturals, Sequences, FiniteSets, TLC

VARIABLES
    handlers,   \* API.handlers[mStruct]: the handler registered for the model
    relation,   \* kind of the model's relation field: "hasOne" or "hasMany"
    db,         \* committed storage: the resource's row and relation members
    tx,         \* state of the transaction of the last request
    req,        \* input of the last request
    trace,      \* calls made by the last request, in order
    resp,       \* response statuses written by the last request
    pre,        \* committed storage when the last request began
    pc,         \* "idle": waiting for a request; "done": a request has returned
    pair,       \* the two relationship requests served at the same time
    options,    \* API.Options: DefaultPageSize, NoContentOnInsert, ModelHandlers
                \* and DefaultHandlerModels
    heap,       \* the query.Pagination objects, by their address
    scopes,     \* the scopes of the list requests in flight
    parsed,     \* a call of parseFieldSetAndIncludes: its inputs and results
    twin,       \* a request served for a model without a core handler, to be
                \* served again for a model whose core handler delegates
    links       \* the pagination links of a list response, with their inputs

\* The variables of the list requests served at the same time.
listVars == <<options, heap, scopes>>

vars == <<handlers, relation, db, tx, req, trace, resp, pre, pc, pair, listVars, parsed, twin, links>>

\* Bounds of the model.
MaxId == 2
MaxLen == 2
MaxPageSize == 2
MaxFields == 2
MaxTotal == 5
MaxHandlers == 2

Ids == 1..MaxId

\* Capabilities a registered model handler may implement, for every operation
\* alike: Before<Op>Handler, <Op>Handler, After<Op>Handler, <Op>Transactioner.
Caps == {"before", "core", "after", "tx"}

NoData == [row |-> FALSE, members |-> {}]

\* The options of an API whose registry is h: ModelHandlers lists the handlers
\* given for the model, by their capabilities, and DefaultHandlerModels tells
\* whether the model is among the models of the default handler.
OptionsOf(h, size, noContent) ==
    [DefaultPageSize |-> size, NoContentOnInsert |-> noContent,
     ModelHandlers |-> IF h.registered THEN <<h.caps>> ELSE <<>>,
     DefaultHandlerModels |-> ~h.registered]

\* ---------------------------------------------------------------- errors

ErrOf(name) == "Err" \o name
ErrRollback == "ErrRollback"
ErrModelNotImplements == "ErrModelNotImplements"
ErrInternalError == "ErrInternalError"
ErrInvalidInput == "ErrInvalidInput"
ErrInvalidQueryParameter == "ErrInvalidQueryParameter"
ErrBadRequest == "ErrBadRequest"
ErrInvalidJSONFieldValue == "ErrInvalidJSONFieldValue"
ErrNoResult == "ErrNoResult"

ClientErrors ==
    {ErrInvalidInput, ErrInvalidQueryParameter, ErrBadRequest,
     ErrInvalidJSONFieldValue, ErrOf("Unmarshal")}

\* ---------------------------------------------------------------- faults

\* What the collaborators do during one request: the one call that returns an
\* error (point), and whether a rollback, if one is made, returns an error too.
FaultsOf(points) ==
    {[point |-> "none", rollbackErr |-> FALSE]} \cup
    [point : points, rollbackErr : BOOLEAN]

\* ---------------------------------------------------------------- context

NewCtx == [db |-> db, tx |-> "none", txd |-> db, trace |-> <<>>, resp |-> <<>>]

\* One call is logged as: what was called (ev), by whom (by: the API handler,
\* the DefaultHandler or the handler chain a stage belongs to), on which storage
\* handle (on), what it returned (res) and the members it was given (arg).
EvA(c, ev, by, on, res, arg) ==
    [c EXCEPT !.trace = Append(@, [ev |-> ev, by |-> by, on |-> on, res |-> res,
                                   arg |-> arg])]

Ev(c, ev, by, on, res) == EvA(c, ev, by, on, res, <<>>)

Done(state) == state \in {"committed", "rolledback"}

Data(c, h) == IF h = "tx" THEN c.txd ELSE c.db

Put(c, h, d) == IF h = "tx" THEN [c EXCEPT !.txd = d] ELSE [c EXCEPT !.db = d]

\* ---------------------------------------------------------------- storage

Begin(c, by, f) ==
    IF f.point = "Begin"
    THEN [c |-> Ev(c, "Begin", by, "db", ErrOf("Begin")), err |-> ErrOf("Begin")]
    ELSE [c |-> Ev([c EXCEPT !.tx = "active", !.txd = c.db], "Begin", by, "db", "nil"),
          err |-> "nil"]

Commit(c, by) ==
    Ev([c EXCEPT !.tx = "committed", !.db = c.txd], "Commit", by, "tx", "nil")

Rollback(c, by, f) ==
    Ev([c EXCEPT !.tx = "rolledback", !.txd = c.db], "Rollback", by, "tx",
       IF f.rollbackErr THEN ErrRollback ELSE "nil")

\* A storage call `name` on handle h that leaves the data d behind.
Store(c, name, by, h, f, d) ==
    IF f.point = name
    THEN [c |-> Ev(c, name, by, h, ErrOf(name)), err |-> ErrOf(name)]
    ELSE [c |-> Ev(Put(c, h, d), name, by, h, "nil"), err |-> "nil"]

InsertQuery(c, h, f) ==
    Store(c, "InsertQuery", "default", h, f, [Data(c, h) EXCEPT !.row = TRUE])

AddRelations(c, h, ms, f) ==
    Store(c, "AddRelations", "default", h, f,
          [Data(c, h) EXCEPT !.members = @ \cup ms])

SetRelations(c, h, ms, f) ==
    Store(c, "SetRelations", "default", h, f, [Data(c, h) EXCEPT !.members = ms])

Update(c, h, f) == Store(c, "Update", "default", h, f, Data(c, h))

\* QueryDeleter.DeleteQuery: the number of deleted rows.
DeleteQuery(c, h, f) ==
    LET s == Store(c, "DeleteQuery", "default", h, f, [Data(c, h) EXCEPT !.row = FALSE])
    IN [c |-> s.c, err |-> s.err, deleted |-> IF Data(c, h).row THEN 1 ELSE 0]

\* QueryGetter.QueryGet: the row read through handle h, with its relation.
QueryGet(c, h, f) ==
    IF f.point = "QueryGet"
    THEN [c |-> Ev(c, "QueryGet", "default", h, ErrOf("QueryGet")), err |-> ErrOf("QueryGet")]
    ELSE IF ~Data(c, h).row
    THEN [c |-> Ev(c, "QueryGet", "default", h, ErrNoResult), err |-> ErrNoResult]
    ELSE [c |-> Ev(c, "QueryGet", "default", h, "nil"), err |-> "nil"]

\* QueryRelationSetter.QuerySetRelations: the relation holds exactly `ms`.
QuerySetRelations(c, h, ms, f) ==
    IF f.point = "QuerySetRelations"
    THEN [c |-> EvA(c, "QuerySetRelations", "default", h, ErrOf("QuerySetRelations"), ms),
          err |-> ErrOf("QuerySetRelations")]
    ELSE [c |-> EvA(Put(c, h, [Data(c, h) EXCEPT !.members = {ms[i] : i \in DOMAIN ms}]),
                    "QuerySetRelations", "default", h, "nil", ms),
          err |-> "nil"]

QueryClearRelations(c, h, f) ==
    Store(c, "QueryClearRelations", "default", h, f, [Data(c, h) EXCEPT !.members = {}])

QueryFind(c, h, f) == Store(c, "QueryFind", "default", h, f, Data(c, h))

\* ---------------------------------------------------------------- hooks

\* A hook of the registered model handler: it is called with the handle h and
\* returns nil or an error.
Hook(c, chain, stage, h, f) ==
    LET e == IF f.point = chain \o "." \o stage
             THEN ErrOf(chain \o "." \o stage) ELSE "nil"
    IN [c |-> Ev(Ev(c, stage \o ".call", chain, h, "call"),
                 stage \o ".ret", chain, h, e),
        err |-> e]

\* A registered handler taken to have every capability.
HasAny(cap) == handlers.registered

Has(cap) == handlers.registered /\ cap \in handlers.caps

\* ---------------------------------------------------------------- response

ErrStatus(err) ==
    IF err \in ClientErrors THEN 400
    ELSE IF err = ErrNoResult THEN 404 ELSE 500

\* A write to the http.ResponseWriter: the status, the error it reports and
\* the number of calls the request had made when it was written.
marshalErrors(c, status, err) ==
    [c EXCEPT !.resp = Append(@, [status |-> IF status = 0 THEN ErrStatus(err) ELSE status,
                                   err |-> err, at |-> Len(c.trace)])]

WriteHeader(c, status) ==
    [c EXCEPT !.resp = Append(@, [status |-> status, err |-> "nil", at |-> Len(c.trace)])]

marshalPayload(c, status) == WriteHeader(c, status)

\* query.NewScope and the fieldset the handler gives the scope it reads the
\* root with: "primary" is the root's primary key alone, "payload" the
\* fieldsets the codec made for the submitted members. Every relationship
\* handler includes the relation with the related primary key.
NewScope(c, fieldset) == Ev(c, "NewScope", "api", "db", fieldset)

\* The checks only the filter is missing from: a faulty variant that lets a
\* filter on a single resource through.
SingleQueryRejectsNoFilter(c, r) == r.params \in {"sort", "page"}

\* The parsed parameters of a query for a single resource hold a sorting
\* order, a pagination or a filter.
SingleQueryRejects(c, r) == r.params # "none"

\* The URL identifier: empty, not parsable, the zero value, or a valid one.
IdError(c, r, errEmpty, errInvalid, errZero) ==
    IF r.id = "empty" THEN marshalErrors(c, 0, errEmpty)
    ELSE IF r.id = "invalid" THEN marshalErrors(c, 0, errInvalid)
    ELSE marshalErrors(c, 0, errZero)

\* The response of a handler to what its chain returned.
Respond(out, status) ==
    IF out.err # "nil" THEN marshalErrors(out.c, 0, out.err)
    ELSE IF status = 204 THEN WriteHeader(out.c, 204)
    ELSE marshalPayload(out.c, status)

\* What a handler chain returns to its caller.
Return(chain, h, r) == [c |-> Ev(r.c, "chain.ret", chain, h, r.err), err |-> r.err]

\* The before-hook of a chain, when the handler has one.
BeforeHook(chain, c, h, f) ==
    IF Has("before") THEN Hook(c, chain, "before", h, f) ELSE [c |-> c, err |-> "nil"]

\* The core handler returned r to its chain: an error ends the chain, otherwise
\* the after-hook follows, when the handler has one.
AfterCore(chain, h, r, f) ==
    IF r.err # "nil" THEN [c |-> Ev(r.c, "core.ret", chain, h, r.err), err |-> r.err]
    ELSE IF Has("after") THEN Hook(Ev(r.c, "core.ret", chain, h, "nil"), chain, "after", h, f)
    ELSE [c |-> Ev(r.c, "core.ret", chain, h, "nil"), err |-> "nil"]

\* ---------------------------------------------------------------- DefaultHandler

\* The loop of DefaultHandler.HandleInsert over payload.IncludedRelations and
\* the commit that follows it when HandleInsert began the transaction. ret is
\* the error returned, err the value of the function's err variable, which is
\* what the deferred function looks at.
RECURSIVE HandleInsertRelations(_, _, _, _, _, _)
HandleInsertRelations(c, h, rels, p, beganTransaction, f) ==
    IF rels = <<>>
    THEN [c |-> IF beganTransaction THEN Commit(c, "default") ELSE c,
          ret |-> "nil", err |-> "nil"]
    ELSE IF Head(rels) = "belongsTo"
    THEN HandleInsertRelations(c, h, Tail(rels), p, beganTransaction, f)
    ELSE IF Head(rels) = "hasOne"
    THEN IF ~p.single
         THEN [c |-> Ev(c, "SingleRelationer", "default", h, ErrModelNotImplements),
               ret |-> ErrModelNotImplements, err |-> "nil"]
         ELSE IF f.point = "GetRelationModel"
         THEN [c |-> Ev(c, "GetRelationModel", "default", h, ErrOf("GetRelationModel")),
               ret |-> ErrOf("GetRelationModel"), err |-> ErrOf("GetRelationModel")]
         ELSE LET a == AddRelations(c, h, {p.member}, f)
              IN IF a.err # "nil" THEN [c |-> a.c, ret |-> a.err, err |-> a.err]
                 ELSE HandleInsertRelations(a.c, h, Tail(rels), p, beganTransaction, f)
    ELSE IF ~p.multi
         THEN [c |-> Ev(c, "MultiRelationer", "default", h, ErrModelNotImplements),
               ret |-> ErrModelNotImplements, err |-> ErrModelNotImplements]
         ELSE IF f.point = "GetRelationModels"
         THEN [c |-> Ev(c, "GetRelationModels", "default", h, ErrOf("GetRelationModels")),
               ret |-> ErrOf("GetRelationModels"), err |-> ErrOf("GetRelationModels")]
         ELSE LET a == SetRelations(c, h, {p.member}, f)
              IN IF a.err # "nil" THEN [c |-> a.c, ret |-> a.err, err |-> a.err]
                 ELSE HandleInsertRelations(a.c, h, Tail(rels), p, beganTransaction, f)

\* DefaultHandler.HandleInsert from the primary write on: ins is what
\* InsertQuery returned on the handle h.
HandleInsertBody(ins, h, p, beganTransaction, f) ==
    IF ins.err # "nil" THEN [c |-> ins.c, ret |-> ins.err, err |-> ins.err]
    ELSE IF Len(p.rels) = 0 THEN [c |-> ins.c, ret |-> "nil", err |-> "nil"]
    ELSE HandleInsertRelations(ins.c, h, p.rels, p, beganTransaction, f)

\* The deferred function of DefaultHandler.HandleInsert, run when the body
\* returns, and what HandleInsert returns.
HandleInsertDefer(body, beganTransaction, f) ==
    [c |-> IF beganTransaction /\ body.err # "nil" /\ ~Done(body.c.tx)
           THEN Rollback(body.c, "default", f) ELSE body.c,
     err |-> body.ret]

\* HandleInsert that begins no transaction of its own: a faulty variant that
\* writes the row and its relations on the handle it was given.
HandleInsertNoTx(c, h, p, f) ==
    HandleInsertDefer(HandleInsertBody(InsertQuery(c, h, f), h, p, FALSE, f), FALSE, f)

\* DefaultHandler.HandleInsert(ctx, db, payload) called with the handle h.
HandleInsert(c, h, p, f) ==
    LET beganTransaction == Len(p.rels) > 0 /\ h # "tx"
        b == IF beganTransaction THEN Begin(c, "default", f) ELSE [c |-> c, err |-> "nil"]
        h1 == IF beganTransaction THEN "tx" ELSE h
    IN IF b.err # "nil" THEN [c |-> b.c, err |-> b.err]
       ELSE HandleInsertDefer(
                HandleInsertBody(InsertQuery(b.c, h1, f), h1, p, beganTransaction, f),
                beganTransaction, f)

\* The loop of DefaultHandler.HandleUpdate over input.IncludedRelations and the
\* commit that follows it when HandleUpdate began the transaction.
RECURSIVE HandleUpdateRelations(_, _, _, _, _, _)
HandleUpdateRelations(c, h, rels, p, beganTransaction, f) ==
    IF rels = <<>>
    THEN [c |-> IF beganTransaction THEN Commit(c, "default") ELSE c,
          ret |-> "nil", err |-> "nil"]
    ELSE IF Head(rels) = "hasOne"
    THEN IF ~p.single
         THEN [c |-> Ev(c, "SingleRelationer", "default", h, ErrModelNotImplements),
               ret |-> ErrModelNotImplements, err |-> ErrModelNotImplements]
         ELSE IF f.point = "GetRelationModel"
         THEN [c |-> Ev(c, "GetRelationModel", "default", h, ErrOf("GetRelationModel")),
               ret |-> ErrOf("GetRelationModel"), err |-> ErrOf("GetRelationModel")]
         ELSE LET a == AddRelations(c, h, {p.member}, f)
              IN IF a.err # "nil" THEN [c |-> a.c, ret |-> a.err, err |-> a.err]
                 ELSE HandleUpdateRelations(a.c, h, Tail(rels), p, beganTransaction, f)
    ELSE IF ~p.multi
         THEN [c |-> Ev(c, "MultiRelationer", "default", h, ErrModelNotImplements),
               ret |-> ErrModelNotImplements, err |-> ErrModelNotImplements]
         ELSE IF f.point = "GetRelationModels"
         THEN [c |-> Ev(c, "GetRelationModels", "default", h, ErrOf("GetRelationModels")),
               ret |-> ErrOf("GetRelationModels"), err |-> ErrOf("GetRelationModels")]
         ELSE LET a == SetRelations(c, h, {p.member}, f)
              IN IF a.err # "nil" THEN [c |-> a.c, ret |-> a.err, err |-> a.err]
                 ELSE HandleUpdateRelations(a.c, h, Tail(rels), p, beganTransaction, f)

\* DefaultHandler.HandleUpdate from the primary write on: upd is what Update
\* returned on the handle h.
HandleUpdateBody(upd, h, p, beganTransaction, f) ==
    IF upd.err # "nil" THEN [c |-> upd.c, ret |-> upd.err, err |-> upd.err]
    ELSE IF Len(p.rels) = 0 THEN [c |-> upd.c, ret |-> "nil", err |-> "nil"]
    ELSE HandleUpdateRelations(upd.c, h, p.rels, p, beganTransaction, f)

\* The deferred function of DefaultHandler.HandleUpdate, run when the body
\* returns, and what HandleUpdate returns.
HandleUpdateDefer(body, beganTransaction, f) ==
    [c |-> IF beganTransaction /\ body.err # "nil"
           THEN Rollback(body.c, "default", f) ELSE body.c,
     err |-> body.ret]

\* HandleUpdate without the test that the handle is a transaction already: a
\* faulty variant that begins a transaction inside the caller's one.
HandleUpdateNested(c, h, p, f) ==
    LET beganTransaction == Len(p.rels) > 0
        b == IF beganTransaction THEN Begin(c, "default", f) ELSE [c |-> c, err |-> "nil"]
        h1 == IF beganTransaction THEN "tx" ELSE h
    IN IF b.err # "nil" THEN [c |-> b.c, err |-> b.err]
       ELSE HandleUpdateDefer(
                HandleUpdateBody(Update(b.c, h1, f), h1, p, beganTransaction, f),
                beganTransaction, f)

\* DefaultHandler.HandleUpdate(ctx, db, input) called with the handle h.
HandleUpdate(c, h, p, f) ==
    LET beganTransaction == Len(p.rels) > 0 /\ h # "tx"
        b == IF beganTransaction THEN Begin(c, "default", f) ELSE [c |-> c, err |-> "nil"]
        h1 == IF beganTransaction THEN "tx" ELSE h
    IN IF b.err # "nil" THEN [c |-> b.c, err |-> b.err]
       ELSE HandleUpdateDefer(
                HandleUpdateBody(Update(b.c, h1, f), h1, p, beganTransaction, f),
                beganTransaction, f)

\* DefaultHandler.HandleGet
HandleGet(c, h, f) == QueryGet(c, h, f)

\* DefaultHandler.HandleList
HandleList(c, h, f) == QueryFind(c, h, f)

\* HandleDelete that takes zero deleted rows for a success: a faulty variant.
HandleDeleteSilent(c, h, f) ==
    LET d == DeleteQuery(c, h, f)
    IN [c |-> d.c, err |-> d.err]

\* DefaultHandler.HandleDelete
HandleDelete(c, h, f) ==
    LET d == DeleteQuery(c, h, f)
    IN IF d.err # "nil" THEN [c |-> d.c, err |-> d.err]
       ELSE IF d.deleted = 0 THEN [c |-> d.c, err |-> ErrNoResult]
       ELSE [c |-> d.c, err |-> "nil"]

\* DefaultHandler.HandleGetRelation: the root is read, the relation value is
\* taken off the model and, when there are related models, refreshed.
HandleGetRelation(c, h, r, f) ==
    LET g == QueryGet(c, h, f)
        isMany == relation = "hasMany"
        name == IF isMany THEN "GetRelationModels" ELSE "GetRelationModel"
    IN IF g.err # "nil" THEN g
       ELSE IF (isMany /\ ~r.multi) \/ (~isMany /\ ~r.single)
       THEN [c |-> Ev(g.c, IF isMany THEN "MultiRelationer" ELSE "SingleRelationer",
                      "default", h, ErrModelNotImplements),
             err |-> ErrModelNotImplements]
       ELSE IF f.point = name
       THEN [c |-> Ev(g.c, name, "default", h, ErrOf(name)), err |-> ErrOf(name)]
       ELSE IF Data(g.c, h).members = {} \/ (r.op = "getRelationship" /\ ~r.query) THEN g
       ELSE Store(g.c, "QueryRefresh", "default", h, f, Data(g.c, h))

\* DefaultHandler.HandleSetRelations
HandleSetRelations(c, h, relationsToSet, f) ==
    IF Len(relationsToSet) = 0 THEN QueryClearRelations(c, h, f)
    ELSE QuerySetRelations(c, h, relationsToSet, f)

\* ---------------------------------------------------------------- transactions

\* database.RunInTransaction(ctx, a.DB, opts, fn): begins, runs fn on the
\* transaction, rolls back when fn returns an error and commits otherwise.
\* b is what Begin returned and r what fn returned on the transaction b.c.
RunInTransaction(b, r, f) ==
    IF b.err # "nil" THEN [c |-> b.c, err |-> b.err]
    ELSE IF r.err # "nil"
    THEN [c |-> IF Done(r.c.tx) THEN r.c ELSE Rollback(r.c, "api", f), err |-> r.err]
    ELSE [c |-> Commit(r.c, "api"), err |-> "nil"]

\* ---------------------------------------------------------------- insert

insertHandleChain(c, h, p, f) ==
    Return("insert", h,
        LET b == BeforeHook("insert", c, h, f)
        IN IF b.err # "nil" THEN b
           ELSE AfterCore("insert", h,
                          HandleInsert(Ev(b.c, "core.call", "insert", h, "call"), h, p, f), f))

\* The relation fields of a fieldset, in the order of the fieldset.
RelationsOf(fields) ==
    (IF "belongsTo" \in fields THEN <<"belongsTo">> ELSE <<>>) \o
    (IF "relation" \in fields THEN <<relation>> ELSE <<>>)

InsertPayload(r) ==
    [rels |-> RelationsOf(r.fields), member |-> r.member,
     single |-> r.single, multi |-> r.multi]

\* A payload of one resource or more is taken: a faulty variant that lets a
\* bulk payload through.
OneResourceOrMore(r) == r.n >= 1

\* len(payload.Data) is 1.
OneResource(r) == r.n = 1

\* The check of the client-generated identifier left out: a faulty variant.
ClientIDUnchecked(r) == FALSE

\* The fieldset of the payload selects the primary key and the model does not
\* allow client-generated identifiers.
ClientIDForbidden(r) == r.clientId = "forbidden"

\* The handler dereferences a nil payload: the request panics, no status line
\* is written and the server closes the connection.
Panic(c) ==
    [c EXCEPT !.resp = Append(@, [status |-> 0, err |-> "panic", at |-> Len(c.trace)])]

\* The fieldset of the payload selects the primary key.
selectedPrimary(r) == r.clientId # "none"

\* The response to an insert that always carries the created resource: a
\* faulty variant without the no-content option.
InsertResponseCreated(out, r) ==
    IF out.err # "nil" THEN marshalErrors(out.c, 0, out.err)
    ELSE marshalPayload(out.c, 201)

\* handleInsert for a model that is no mapping.Fielder: the error is written
\* and, the branch having no return, SetFieldValue is called on the nil
\* interface.
NoFielder(c) ==
    Panic(Ev(marshalErrors(Ev(c, "Fielder", "api", "db", ErrModelNotImplements),
                           500, ErrInternalError),
             "SetFieldValue", "api", "db", "panic"))

\* API.handleInsert after the chain returned out: r.result is the payload the
\* chain returned with a nil error.
InsertResponse(out, r) ==
    IF out.err # "nil" THEN marshalErrors(out.c, 0, out.err)
    ELSE IF selectedPrimary(r) /\ options.NoContentOnInsert THEN WriteHeader(out.c, 204)
    ELSE IF r.result = "nil" THEN Panic(out.c)
    ELSE IF r.result = "empty" THEN marshalErrors(out.c, 500, ErrInternalError)
    ELSE marshalPayload(out.c, 201)

\* API.handleInsert: the whole request.
handleInsertRun(c, r, f) ==
    IF f.point = "Unmarshal" THEN marshalErrors(c, 0, ErrOf("Unmarshal"))
    ELSE IF ~OneResource(r) THEN marshalErrors(c, 0, ErrInvalidInput)
    ELSE IF "belongsTo" \in r.fields /\ ~r.single
    THEN marshalErrors(Ev(c, "SingleRelationer", "api", "db", ErrModelNotImplements),
                       500, ErrInternalError)
    ELSE IF "belongsTo" \in r.fields /\ f.point = "GetRelationModel"
    THEN marshalErrors(Ev(c, "GetRelationModel", "api", "db", ErrOf("GetRelationModel")),
                       500, ErrInternalError)
    ELSE IF "belongsTo" \in r.fields /\ ~r.fielder THEN NoFielder(c)
    ELSE IF ClientIDForbidden(r) THEN marshalErrors(c, 403, ErrInvalidJSONFieldValue)
    ELSE
    LET p == InsertPayload(r)
        out == IF Has("tx")
               THEN LET b == Begin(c, "api", f)
                    IN RunInTransaction(b, insertHandleChain(b.c, "tx", p, f), f)
               ELSE insertHandleChain(c, "db", p, f)
    IN InsertResponse(out, r)

\* ---------------------------------------------------------------- get

\* getHandleChain with the core handler called ahead of the before-hook: a
\* faulty variant with the stages out of order.
getHandleChainCoreFirst(c, h, f) ==
    Return("get", h,
        LET r == HandleGet(Ev(c, "core.call", "get", h, "call"), h, f)
            c1 == Ev(r.c, "core.ret", "get", h, r.err)
        IN IF r.err # "nil" THEN [c |-> c1, err |-> r.err]
           ELSE LET b == IF Has("before") THEN Hook(c1, "get", "before", h, f)
                         ELSE [c |-> c1, err |-> "nil"]
                IN IF b.err # "nil" THEN [c |-> b.c, err |-> b.err]
                   ELSE IF Has("after") THEN Hook(b.c, "get", "after", h, f)
                   ELSE [c |-> b.c, err |-> "nil"])

getHandleChain(c, h, f) ==
    Return("get", h,
        LET b == BeforeHook("get", c, h, f)
        IN IF b.err # "nil" THEN b
           ELSE AfterCore("get", h,
                          HandleGet(Ev(b.c, "core.call", "get", h, "call"), h, f), f))

\* API.handleGet: the whole request.
handleGetRun(c, r, f) ==
    IF r.id # "ok" THEN IdError(c, r, ErrBadRequest, ErrBadRequest, ErrBadRequest)
    ELSE IF f.point = "ParseParameters" THEN marshalErrors(c, 0, ErrOf("ParseParameters"))
    ELSE IF SingleQueryRejects(c, r) THEN marshalErrors(c, 400, ErrInvalidQueryParameter)
    ELSE
    LET out == IF Has("tx")
               THEN LET b == Begin(c, "api", f)
                    IN RunInTransaction(b, getHandleChain(b.c, "tx", f), f)
               ELSE getHandleChain(c, "db", f)
    IN Respond(out, 200)

\* ---------------------------------------------------------------- list

\* listHandleChain that drops the error of the after-hook: a faulty variant
\* that reports success for a failed stage.
listHandleChainSwallow(c, h, f) ==
    Return("list", h,
        LET b == IF Has("before") THEN Hook(c, "list", "before", h, f)
                 ELSE [c |-> c, err |-> "nil"]
        IN IF b.err # "nil" THEN [c |-> b.c, err |-> b.err]
           ELSE LET r == HandleList(Ev(b.c, "core.call", "list", h, "call"), h, f)
                    c1 == Ev(r.c, "core.ret", "list", h, r.err)
                IN IF r.err # "nil" THEN [c |-> c1, err |-> r.err]
                   ELSE IF Has("after")
                   THEN [c |-> Hook(c1, "list", "after", h, f).c, err |-> "nil"]
                   ELSE [c |-> c1, err |-> "nil"])

listHandleChain(c, h, f) ==
    Return("list", h,
        LET b == BeforeHook("list", c, h, f)
        IN IF b.err # "nil" THEN b
           ELSE AfterCore("list", h,
                          HandleList(Ev(b.c, "core.call", "list", h, "call"), h, f), f))

\* API.handleList: the whole request.
handleListRun(c, r, f) ==
    IF f.point = "ParseParameters" THEN marshalErrors(c, 0, ErrOf("ParseParameters"))
    ELSE
    LET out == IF Has("tx")
               THEN LET b == Begin(c, "api", f)
                    IN RunInTransaction(b, listHandleChain(b.c, "tx", f), f)
               ELSE listHandleChain(c, "db", f)
    IN Respond(out, 200)

\* ---------------------------------------------------------------- delete

\* deleteHandlerChain that goes on after the before-hook failed: a faulty
\* variant that deletes although the hook refused.
deleteHandlerChainNoAbort(c, h, f) ==
    Return("delete", h,
        LET b == IF Has("before") THEN Hook(c, "delete", "before", h, f)
                 ELSE [c |-> c, err |-> "nil"]
            r == HandleDelete(Ev(b.c, "core.call", "delete", h, "call"), h, f)
            c1 == Ev(r.c, "core.ret", "delete", h, r.err)
        IN IF b.err # "nil" THEN [c |-> c1, err |-> b.err]
           ELSE IF r.err # "nil" THEN [c |-> c1, err |-> r.err]
           ELSE IF Has("after") THEN Hook(c1, "delete", "after", h, f)
           ELSE [c |-> c1, err |-> "nil"])

deleteHandlerChain(c, h, f) ==
    Return("delete", h,
        LET b == BeforeHook("delete", c, h, f)
        IN IF b.err # "nil" THEN b
           ELSE AfterCore("delete", h,
                          HandleDelete(Ev(b.c, "core.call", "delete", h, "call"), h, f), f))

\* API.handleDelete: the whole request.
handleDeleteRun(c, r, f) ==
    IF r.id # "ok"
    THEN IdError(c, r, ErrInvalidQueryParameter, ErrBadRequest, ErrInvalidQueryParameter)
    ELSE
    LET out == IF Has("tx")
               THEN LET b == Begin(c, "api", f)
                    IN RunInTransaction(b, deleteHandlerChain(b.c, "tx", f), f)
               ELSE deleteHandlerChain(c, "db", f)
    IN Respond(out, 204)

\* ---------------------------------------------------------------- get related

getRelationHandleChain(c, h, r, f) ==
    Return("getRelation", h,
        LET b == BeforeHook("getRelation", c, h, f)
        IN IF b.err # "nil" THEN b
           ELSE AfterCore("getRelation", h,
                          HandleGetRelation(Ev(b.c, "core.call", "getRelation", h, "call"), h, r, f), f))

\* API.handleGetRelated: the whole request.
handleGetRelatedRun(c, r, f) ==
    IF r.id # "ok"
    THEN IdError(c, r, ErrBadRequest, ErrBadRequest, ErrInvalidQueryParameter)
    ELSE IF f.point = "ParseParameters" THEN marshalErrors(c, 0, ErrOf("ParseParameters"))
    ELSE IF relation = "hasOne" /\ SingleQueryRejects(c, r)
    THEN marshalErrors(c, 400, ErrInvalidQueryParameter)
    ELSE
    LET out == IF Has("tx")
               THEN LET b == Begin(c, "api", f)
                    IN RunInTransaction(b, getRelationHandleChain(b.c, "tx", r, f), f)
               ELSE getRelationHandleChain(c, "db", r, f)
    IN Respond(out, 200)

\* API.handleGetRelationship after its scope was made on the context s.
getRelationshipChain(s, r, f) ==
    IF Has("tx")
    THEN RunInTransaction(Begin(s, "api", f),
                          getRelationHandleChain(Begin(s, "api", f).c, "tx", r, f), f)
    ELSE getRelationHandleChain(s, "db", r, f)

\* API.handleGetRelationship: the whole request.
handleGetRelationshipRun(c, r, f) ==
    IF r.id # "ok"
    THEN IdError(c, r, ErrBadRequest, ErrBadRequest, ErrInvalidQueryParameter)
    ELSE IF r.query /\ f.point = "ParseParameters"
    THEN marshalErrors(c, 0, ErrOf("ParseParameters"))
    ELSE IF r.query /\ relation = "hasOne" /\ SingleQueryRejects(c, r)
    THEN marshalErrors(c, 400, ErrInvalidQueryParameter)
    ELSE Respond(getRelationshipChain(NewScope(c, "primary"), r, f), 200)

\* ---------------------------------------------------------------- update

\* The core.call event carries the primary key of the model that is updated.
updateHandlerChain(c, h, p, f) ==
    Return("update", h,
        LET b == BeforeHook("update", c, h, f)
        IN IF b.err # "nil" THEN b
           ELSE AfterCore("update", h,
                          HandleUpdate(EvA(b.c, "core.call", "update", h, "call", <<p.key>>),
                                       h, p, f), f))

\* fullUpdateHandlerChain reading the updated model back on the API's own
\* database handle instead of the handle of the update.
fullUpdateGetOnDB(u, h, hasJsonapiMimeType, f) ==
    IF u.err # "nil" \/ ~hasJsonapiMimeType THEN u ELSE getHandleChain(u.c, "db", f)

\* fullUpdateHandlerChain after the update chain returned u: the updated model
\* is read back when the client accepts a body.
fullUpdateGet(u, h, hasJsonapiMimeType, f) ==
    IF u.err # "nil" \/ ~hasJsonapiMimeType THEN u ELSE getHandleChain(u.c, h, f)

fullUpdateHandlerChain(c, h, p, hasJsonapiMimeType, f) ==
    fullUpdateGet(updateHandlerChain(c, h, p, f), h, hasJsonapiMimeType, f)

\* The primary key of the model of an update after handleUpdate compared it
\* with the URL identifier: a model without a key gets the URL identifier by
\* SetPrimaryKeyStringValue, whose error is dropped, so that an identifier
\* that does not parse leaves the zero key.
PrimaryKeyOf(r) ==
    IF r.bodyId = "none"
    THEN IF r.id = "invalid" THEN "zero" ELSE r.id
    ELSE r.id

\* The relations of an update: belongs-to relations are written with the row.
UpdatePayload(r) ==
    [key |-> PrimaryKeyOf(r),
     rels |-> IF "relation" \in r.fields THEN <<relation>> ELSE <<>>,
     member |-> r.member, single |-> r.single, multi |-> r.multi]

\* API.handleUpdate: the whole request.
handleUpdateRun(c, r, f) ==
    IF r.id = "empty" THEN marshalErrors(c, 0, ErrBadRequest)
    ELSE IF f.point = "Unmarshal" THEN marshalErrors(c, 0, ErrOf("Unmarshal"))
    ELSE IF ~OneResource(r) THEN marshalErrors(c, 0, ErrInvalidInput)
    ELSE IF r.bodyId = "other" THEN marshalErrors(c, 0, ErrInvalidInput)
    ELSE IF "belongsTo" \in r.fields /\ ~r.single
    THEN marshalErrors(Ev(c, "SingleRelationer", "api", "db", ErrModelNotImplements),
                       500, ErrInternalError)
    ELSE IF "belongsTo" \in r.fields /\ f.point = "GetRelationModel"
    THEN marshalErrors(Ev(c, "GetRelationModel", "api", "db", ErrOf("GetRelationModel")),
                       0, ErrOf("GetRelationModel"))
    ELSE IF "belongsTo" \in r.fields /\ ~r.fielder
    THEN marshalErrors(Ev(c, "Fielder", "api", "db", ErrModelNotImplements),
                       500, ErrInternalError)
    ELSE
    LET p == UpdatePayload(r)
        isTransactioner == Has("tx") \/ Len(p.rels) > 0
        out == IF isTransactioner
               THEN LET b == Begin(c, "api", f)
                    IN RunInTransaction(b, fullUpdateHandlerChain(b.c, "tx", p, r.accept, f), f)
               ELSE fullUpdateHandlerChain(c, "db", p, r.accept, f)
    IN Respond(out, IF r.accept THEN 200 ELSE 204)

\* ---------------------------------------------------------------- relationships

\* The members a set holds, as the storage returns them: in ascending order.
RECURSIVE SeqOf(_)
SeqOf(ms) ==
    IF ms = {} THEN <<>>
    ELSE LET m == CHOOSE x \in ms : \A y \in ms : x <= y
         IN <<m>> \o SeqOf(ms \ {m})

\* The value of the relation field of the handler's `model` after the root was
\* read through the scope s: QueryGet fills the models of the scope, so the
\* value is the stored one when the scope was made with `model`, and the empty
\* value NewModel gave it when the scope was made without a model.
RelationValue(c, scopeHasModel) ==
    IF scopeHasModel THEN SeqOf(Data(c, "tx").members) ELSE <<>>

\* The first member of a sequence that is the value of a to-one relation.
FirstOf(ms) == IF ms = <<>> THEN <<>> ELSE <<Head(ms)>>

Range(q) == {q[i] : i \in DOMAIN q}

\* The deferred function of the relationship handlers: err is the handler's
\* err variable when it returns.
DeferRollback(c, err, f) ==
    IF err # "nil" /\ ~Done(c.tx) THEN Rollback(c, "api", f) ELSE c

\* The response of a relationship handler after its commit.
RelationshipResponse(c, r) ==
    IF ~r.accept \/ r.result = "nil" \/ r.result = "dataMeta"
    THEN WriteHeader(c, 204) ELSE marshalPayload(c, 200)

\* A relationship handler after its get chain returned g: the before-hook.
RelationshipBefore(chain, g, f) ==
    IF g.err # "nil" THEN g ELSE BeforeHook(chain, g.c, "tx", f)

\* The end of a relationship handler: ah is what the relation setter and the
\* after-hook returned; an error is answered and rolled back, else the
\* transaction is committed and the response written.
RelationshipEnd(ah, r, f) ==
    IF ah.err # "nil" THEN DeferRollback(marshalErrors(ah.c, 0, ah.err), ah.err, f)
    ELSE RelationshipResponse(Commit(ah.c, "api"), r)

\* A relation setter that writes through the database instead of the
\* transaction.
RelationshipSetOutsideTx(chain, c, relationsToSet, r, f) ==
    RelationshipEnd(
        AfterCore(chain, "tx",
                  HandleSetRelations(
                      EvA(c, "core.call", chain, "tx", "call", relationsToSet),
                      "db", relationsToSet, f),
                  f),
        r, f)

\* A relationship handler from the call of HandleSetRelations on.
RelationshipSet(chain, c, relationsToSet, r, f) ==
    RelationshipEnd(
        AfterCore(chain, "tx",
                  HandleSetRelations(
                      EvA(c, "core.call", chain, "tx", "call", relationsToSet),
                      "tx", relationsToSet, f),
                  f),
        r, f)

\* The submitted members that are not among the current ones.
RECURSIVE ToInsert(_, _)
ToInsert(current, data) ==
    IF data = <<>> THEN <<>>
    ELSE IF Head(data) \in Range(current) THEN ToInsert(current, Tail(data))
    ELSE <<Head(data)>> \o ToInsert(current, Tail(data))

\* API.handleInsertRelationship after its before-hook returned bh: the current
\* members are read off the model and united with the submitted ones.
insertRelationshipReconcile(bh, r, f) ==
    IF bh.err # "nil" THEN DeferRollback(marshalErrors(bh.c, 0, bh.err), bh.err, f)
    ELSE
    LET isMany == relation = "hasMany"
        read == IF isMany THEN "GetRelationModels" ELSE "GetRelationModel"
        relationModels == IF isMany THEN RelationValue(bh.c, FALSE)
                          ELSE FirstOf(RelationValue(bh.c, FALSE))
        relationsToSet == relationModels \o ToInsert(relationModels, r.data)
    IN IF (isMany /\ ~r.multi) \/ (~isMany /\ ~r.single)
       THEN DeferRollback(
                marshalErrors(Ev(bh.c, IF isMany THEN "MultiRelationer" ELSE "SingleRelationer",
                                 "api", "tx", ErrModelNotImplements), 500, ErrInternalError),
                ErrInternalError, f)
       ELSE IF f.point = read
       THEN DeferRollback(marshalErrors(Ev(bh.c, read, "api", "tx", ErrOf(read)), 0, ErrOf(read)),
                          ErrOf(read), f)
       ELSE IF Len(relationsToSet) = Len(relationModels)
       THEN WriteHeader(Commit(EvA(bh.c, read, "api", "tx", "nil", relationModels), "api"), 204)
       ELSE RelationshipSet("insertRel", EvA(bh.c, read, "api", "tx", "nil", relationModels),
                            relationsToSet, r, f)

\* handleInsertRelationship without the test of the to-one relation: a faulty
\* variant that takes any number of members for it.
handleInsertRelationshipRunAny(c, r, f) ==
    IF r.id # "ok"
    THEN IdError(c, r, ErrBadRequest, ErrInvalidQueryParameter, ErrInvalidQueryParameter)
    ELSE IF f.point = "Unmarshal" THEN marshalErrors(c, 0, ErrOf("Unmarshal"))
    ELSE IF Len(r.data) = 0 THEN WriteHeader(c, 204)
    ELSE
    LET b == Begin(NewScope(c, "payload"), "api", f)
    IN IF b.err # "nil" THEN marshalErrors(b.c, 0, b.err)
       ELSE insertRelationshipReconcile(
                RelationshipBefore("insertRel", getHandleChain(b.c, "tx", f), f), r, f)

\* API.handleInsertRelationship: the whole request.
handleInsertRelationshipRun(c, r, f) ==
    IF r.id # "ok"
    THEN IdError(c, r, ErrBadRequest, ErrInvalidQueryParameter, ErrInvalidQueryParameter)
    ELSE IF f.point = "Unmarshal" THEN marshalErrors(c, 0, ErrOf("Unmarshal"))
    ELSE IF relation = "hasOne" /\ Len(r.data) > 1 THEN marshalErrors(c, 0, ErrInvalidInput)
    ELSE IF Len(r.data) = 0 THEN WriteHeader(c, 204)
    ELSE
    LET b == Begin(NewScope(c, "payload"), "api", f)
    IN IF b.err # "nil" THEN marshalErrors(b.c, 0, b.err)
       ELSE insertRelationshipReconcile(
                RelationshipBefore("insertRel", getHandleChain(b.c, "tx", f), f), r, f)

\* An update that adds the submitted members to the stored ones.
updateRelationshipMerge(bh, r, f) ==
    IF bh.err # "nil" THEN DeferRollback(marshalErrors(bh.c, 0, bh.err), bh.err, f)
    ELSE RelationshipSet("updateRel", bh.c,
                         SeqOf(Data(bh.c, "tx").members \cup Range(r.data)), r, f)

\* API.handleUpdateRelationship after its before-hook returned bh.
updateRelationshipSet(bh, r, f) ==
    IF bh.err # "nil" THEN DeferRollback(marshalErrors(bh.c, 0, bh.err), bh.err, f)
    ELSE RelationshipSet("updateRel", bh.c, r.data, r, f)

\* API.handleUpdateRelationship: the whole request.
handleUpdateRelationshipRun(c, r, f) ==
    IF r.id # "ok"
    THEN IdError(c, r, ErrBadRequest, ErrInvalidQueryParameter, ErrInvalidQueryParameter)
    ELSE IF f.point = "Unmarshal" THEN marshalErrors(c, 0, ErrOf("Unmarshal"))
    ELSE
    LET b == Begin(NewScope(c, "primary"), "api", f)
    IN IF b.err # "nil" THEN marshalErrors(b.c, 0, b.err)
       ELSE updateRelationshipSet(
                RelationshipBefore("updateRel", getHandleChain(b.c, "tx", f), f), r, f)

\* A difference that takes no member away.
NewRelationsKeepAll(current, data) == current

\* The current members that are not among the submitted ones.
RECURSIVE NewRelations(_, _)
NewRelations(current, data) ==
    IF current = <<>> THEN <<>>
    ELSE IF Head(current) \in Range(data) THEN NewRelations(Tail(current), data)
    ELSE <<Head(current)>> \o NewRelations(Tail(current), data)

\* API.handleDeleteRelationship after its before-hook returned bh: the current
\* members are read off the model and the submitted ones taken away. In the
\* switch that reads them the handler's err variable is shadowed or not set:
\* the deferred function sees nil.
deleteRelationshipReconcile(bh, r, f) ==
    IF bh.err # "nil" THEN DeferRollback(marshalErrors(bh.c, 0, bh.err), bh.err, f)
    ELSE
    LET isMany == relation = "hasMany"
        read == IF isMany THEN "GetRelationModels" ELSE "GetRelationModel"
        relationModels == IF isMany THEN RelationValue(bh.c, TRUE)
                          ELSE FirstOf(RelationValue(bh.c, TRUE))
    IN IF (isMany /\ ~r.multi) \/ (~isMany /\ ~r.single)
       THEN DeferRollback(
                marshalErrors(Ev(bh.c, IF isMany THEN "MultiRelationer" ELSE "SingleRelationer",
                                 "api", "tx", ErrModelNotImplements), 500, ErrInternalError),
                "nil", f)
       ELSE IF f.point = read
       THEN DeferRollback(marshalErrors(Ev(bh.c, read, "api", "tx", ErrOf(read)), 0, ErrOf(read)),
                          "nil", f)
       ELSE IF ~isMany /\ relationModels = <<>>
       THEN \* the nil relation model is appended and its primary key is asked for
            DeferRollback(Ev(EvA(bh.c, read, "api", "tx", "nil", relationModels),
                             "panic", "api", "tx", "nil"), "nil", f)
       ELSE IF Range(r.data) \cap Range(relationModels) = {}
       THEN \* nothingToDelete
            WriteHeader(Commit(EvA(bh.c, read, "api", "tx", "nil", relationModels), "api"), 204)
       ELSE RelationshipSet("deleteRel", EvA(bh.c, read, "api", "tx", "nil", relationModels),
                            NewRelations(relationModels, r.data), r, f)

\* API.handleDeleteRelationship: the whole request.
handleDeleteRelationshipRun(c, r, f) ==
    IF r.id # "ok"
    THEN IdError(c, r, ErrBadRequest, ErrInvalidQueryParameter, ErrInvalidQueryParameter)
    ELSE IF f.point = "Unmarshal" THEN marshalErrors(c, 0, ErrOf("Unmarshal"))
    ELSE IF Len(r.data) = 0 THEN WriteHeader(c, 204)
    ELSE
    LET b == Begin(NewScope(c, "primary"), "api", f)
    IN IF b.err # "nil" THEN marshalErrors(b.c, 0, b.err)
       ELSE deleteRelationshipReconcile(
                RelationshipBefore("deleteRel", getHandleChain(b.c, "tx", f), f), r, f)

\* ---------------------------------------------------------------- requests

\* bodyId is the primary key of the model in the body of an update: absent
\* ("none"), the URL's ("same") or another one ("other"); query tells whether the
\* URL of a get-relationship request carries query parameters; result is the
\* payload the relation setter returns; params is what the parsed query
\* parameters of a get request hold besides fieldsets and includes: nothing,
\* a sorting order, a pagination or a filter; clientId tells whether the
\* fieldset of an insert payload selects the primary key, and if so whether
\* the model allows a client-generated identifier ("allowed") or not
\* ("forbidden"); fielder tells whether the model implements mapping.Fielder.
NoReq ==
    [op |-> "none", id |-> "ok", n |-> 1, fields |-> {}, member |-> 1,
     data |-> <<>>, accept |-> FALSE, single |-> TRUE, multi |-> TRUE,
     bodyId |-> "none", query |-> FALSE, result |-> "empty", params |-> "none",
     clientId |-> "none", fielder |-> TRUE]

\* What HandleSetRelations returns with a nil error: the DefaultHandler an
\* empty payload; a handler of the model nil, an empty payload, one with
\* metadata only, or one with data and metadata.
SetRelationsResults ==
    IF Has("core") THEN {"nil", "empty", "meta", "dataMeta"} ELSE {"empty"}

\* What HandleInsert returns with a nil error: the DefaultHandler a payload
\* with the inserted model; a handler of the model nil, a payload without
\* data, or one with data.
InsertResults ==
    IF Has("core") THEN {"nil", "empty", "data"} ELSE {"data"}

\* The relation fields a payload may carry; its attributes play no part in
\* the handlers' control flow.
FieldKinds == {"belongsTo", "relation"}

IdKinds == {"empty", "invalid", "zero", "ok"}

\* The relationer interfaces the model implements: both, or all but the one
\* the relation's kind needs.
Impl ==
    {<<TRUE, TRUE>>, IF relation = "hasOne" THEN <<FALSE, TRUE>> ELSE <<TRUE, FALSE>>}

\* The submitted members of a relationship request: up to MaxLen identifiers,
\* possibly repeated, in ascending order.
Submitted ==
    {q \in UNION {[1..k -> Ids] : k \in 0..MaxLen} :
        \A i \in DOMAIN q : \A j \in DOMAIN q : i < j => q[i] <= q[j]}

InsertRequests ==
    {[NoReq EXCEPT !.op = "insert", !.n = n] : n \in {0, 2}} \cup
    {[NoReq EXCEPT !.op = "insert", !.fields = fs, !.member = m,
                   !.single = i[1], !.multi = i[2], !.clientId = k, !.result = d] :
        fs \in SUBSET FieldKinds, m \in Ids, i \in Impl,
        k \in {"none", "allowed", "forbidden"}, d \in InsertResults} \cup
    {[NoReq EXCEPT !.op = "insert", !.fields = fs, !.clientId = k, !.result = "data",
                   !.fielder = FALSE] :
        fs \in {{"belongsTo"}, FieldKinds}, k \in {"none", "forbidden"}}

UpdateRequests ==
    {[NoReq EXCEPT !.op = "update", !.id = "empty"]} \cup
    {[NoReq EXCEPT !.op = "update", !.id = k, !.bodyId = b] :
        k \in IdKinds \ {"empty"}, b \in {"none", "other"}} \cup
    {[NoReq EXCEPT !.op = "update", !.bodyId = "same", !.fields = fs] :
        fs \in SUBSET FieldKinds} \cup
    {[NoReq EXCEPT !.op = "update", !.n = n] : n \in {0, 2}} \cup
    {[NoReq EXCEPT !.op = "update", !.fields = fs, !.member = m, !.accept = a,
                   !.single = i[1], !.multi = i[2]] :
        fs \in SUBSET FieldKinds, m \in Ids, a \in BOOLEAN, i \in Impl} \cup
    {[NoReq EXCEPT !.op = "update", !.fields = fs, !.fielder = FALSE] :
        fs \in {{"belongsTo"}, FieldKinds}}

ParamKinds == {"none", "sort", "page", "filter"}

GetRequests ==
    {[NoReq EXCEPT !.op = "get", !.id = k] : k \in IdKinds} \cup
    {[NoReq EXCEPT !.op = "get", !.params = q] : q \in ParamKinds}

ListRequests == {[NoReq EXCEPT !.op = "list"]}

DeleteRequests == {[NoReq EXCEPT !.op = "delete", !.id = k] : k \in IdKinds}

GetRelatedRequests ==
    {[NoReq EXCEPT !.op = "getRelated", !.id = k] : k \in IdKinds \ {"ok"}} \cup
    {[NoReq EXCEPT !.op = "getRelated", !.params = q, !.single = i[1], !.multi = i[2]] :
        q \in ParamKinds, i \in Impl}

GetRelationshipRequests ==
    {[NoReq EXCEPT !.op = "getRelationship", !.id = k] : k \in IdKinds \ {"ok"}} \cup
    {[NoReq EXCEPT !.op = "getRelationship", !.query = q, !.single = i[1], !.multi = i[2]] :
        q \in BOOLEAN, i \in Impl} \cup
    {[NoReq EXCEPT !.op = "getRelationship", !.query = TRUE, !.params = q,
                   !.single = i[1], !.multi = i[2]] :
        q \in ParamKinds, i \in Impl}

\* The Accept header is read after the commit only, so the failing calls are
\* drawn for the requests without it.
RelationshipRequests(op, f) ==
    {[NoReq EXCEPT !.op = op, !.id = k] : k \in IdKinds \ {"ok"}} \cup
    {[NoReq EXCEPT !.op = op, !.data = d, !.accept = a, !.single = i[1], !.multi = i[2],
                   !.result = k] :
        d \in Submitted, a \in {FALSE, f.point = "none"}, i \in Impl,
        k \in SetRelationsResults}

InsertFaults ==
    FaultsOf({"Unmarshal", "Begin", "insert.before", "InsertQuery", "GetRelationModel",
              "GetRelationModels", "AddRelations", "SetRelations", "insert.after"})

UpdateFaults ==
    FaultsOf({"Unmarshal", "Begin", "update.before", "Update", "GetRelationModel",
              "GetRelationModels", "AddRelations", "SetRelations", "update.after",
              "get.before", "QueryGet", "get.after"})

GetFaults == FaultsOf({"ParseParameters", "Begin", "get.before", "QueryGet", "get.after"})

ListFaults == FaultsOf({"ParseParameters", "Begin", "list.before", "QueryFind", "list.after"})

DeleteFaults == FaultsOf({"Begin", "delete.before", "DeleteQuery", "delete.after"})

GetRelatedFaults ==
    FaultsOf({"ParseParameters", "Begin", "getRelation.before", "QueryGet", "GetRelationModel",
              "GetRelationModels", "QueryRefresh", "getRelation.after"})

RelationshipFaults(chain) ==
    FaultsOf({"Unmarshal", "Begin", "get.before", "QueryGet", "get.after",
              chain \o ".before", "GetRelationModel", "GetRelationModels",
              "QuerySetRelations", "QueryClearRelations", chain \o ".after"})

Serve(r, out) ==
    /\ db' = out.db
    /\ tx' = out.tx
    /\ trace' = out.trace
    /\ resp' = out.resp
    /\ req' = r
    /\ pre' = db
    /\ pc' = "done"
    /\ UNCHANGED <<handlers, relation, pair, listVars, parsed, twin, links>>

handleInsert ==
    /\ pc = "idle"
    /\ \E r \in InsertRequests, f \in InsertFaults :
           Serve(r, handleInsertRun(NewCtx, r, f))

handleUpdate ==
    /\ pc = "idle"
    /\ \E r \in UpdateRequests, f \in UpdateFaults :
           Serve(r, handleUpdateRun(NewCtx, r, f))

handleGet ==
    /\ pc = "idle"
    /\ \E r \in GetRequests, f \in GetFaults :
           Serve(r, handleGetRun(NewCtx, r, f))

handleList ==
    /\ pc = "idle"
    /\ \E r \in ListRequests, f \in ListFaults :
           Serve(r, handleListRun(NewCtx, r, f))

handleDelete ==
    /\ pc = "idle"
    /\ \E r \in DeleteRequests, f \in DeleteFaults :
           Serve(r, handleDeleteRun(NewCtx, r, f))

handleGetRelated ==
    /\ pc = "idle"
    /\ \E r \in GetRelatedRequests, f \in GetRelatedFaults :
           Serve(r, handleGetRelatedRun(NewCtx, r, f))

handleGetRelationship ==
    /\ pc = "idle"
    /\ \E r \in GetRelationshipRequests, f \in GetRelatedFaults :
           Serve(r, handleGetRelationshipRun(NewCtx, r, f))

handleInsertRelationship ==
    /\ pc = "idle"
    /\ \E f \in RelationshipFaults("insertRel") : \E r \in RelationshipRequests("insertRel", f) :
           Serve(r, handleInsertRelationshipRun(NewCtx, r, f))

handleUpdateRelationship ==
    /\ pc = "idle"
    /\ \E f \in RelationshipFaults("updateRel") : \E r \in RelationshipRequests("updateRel", f) :
           Serve(r, handleUpdateRelationshipRun(NewCtx, r, f))

handleDeleteRelationship ==
    /\ pc = "idle"
    /\ \E f \in RelationshipFaults("deleteRel") : \E r \in RelationshipRequests("deleteRel", f) :
           Serve(r, handleDeleteRelationshipRun(NewCtx, r, f))

\* The handler has returned; the server waits for the next request.
ServeNext ==
    /\ pc = "done"
    /\ pc' = "idle"
    /\ tx' = "none"
    /\ req' = NoReq
    /\ trace' = <<>>
    /\ resp' = <<>>
    /\ pre' = db
    /\ UNCHANGED <<handlers, relation, db, pair, listVars, parsed, twin, links>>

\* No two requests are served at the same time.
NoPair == <<>>

NoScopes == <<>>

\* parseFieldSetAndIncludes is not being called.
NoCall == <<>>

\* No request is served twice.
NoTwin == <<>>

\* No pagination links are being made.
NoLinks == <<>>

\* The addresses a query.Pagination object may have: the one handleList makes
\* when the route is set up, and one for each request's own object.
Addrs == {"default", "a", "b"}

\* No Pagination object is allocated.
NoPagination == [x \in Addrs |-> [Limit |-> 0, Offset |-> 0]]

Init ==
    /\ handlers \in {[registered |-> FALSE, caps |-> {}], [registered |-> TRUE, caps |-> {"core"}]} \cup
                    [registered : {TRUE}, caps : SUBSET (Caps \ {"core"})]
    /\ relation \in {"hasOne", "hasMany"}
    /\ db = NoData
    /\ tx = "none"
    /\ req = NoReq
    /\ trace = <<>>
    /\ resp = <<>>
    /\ pre = NoData
    /\ pc = "idle"
    /\ pair = NoPair
    /\ options \in {OptionsOf(handlers, 0, n) : n \in BOOLEAN}
    /\ heap = NoPagination
    /\ scopes = NoScopes
    /\ parsed = NoCall
    /\ twin = NoTwin
    /\ links = NoLinks

Next ==
    \/ handleInsert
    \/ handleUpdate
    \/ handleGet
    \/ handleList
    \/ handleDelete
    \/ handleGetRelated
    \/ handleGetRelationship
    \/ handleInsertRelationship
    \/ handleUpdateRelationship
    \/ handleDeleteRelationship
    \/ ServeNext

Spec == Init /\ [][Next]_vars

\* ------------------------------------------------------------ initialization

\* The API as New made it is initialized with its options, and then serves
\* requests.

ErrServerOptions == "ErrServerOptions"

\* The loop that takes the last handler given for a model: a faulty variant
\* that replaces the entry of the registry instead of failing.
RECURSIVE RegisterHandlersReplacing(_, _)
RegisterHandlersReplacing(h, modelHandlers) ==
    IF modelHandlers = <<>> THEN [handlers |-> h, err |-> "nil"]
    ELSE RegisterHandlersReplacing([registered |-> TRUE, caps |-> Head(modelHandlers)],
                                   Tail(modelHandlers))

\* The loop of InitializeAPI over Options.ModelHandlers, all for the one
\* model: a handler is put into a.handlers unless the model has one.
RECURSIVE RegisterHandlers(_, _)
RegisterHandlers(h, modelHandlers) ==
    IF modelHandlers = <<>> THEN [handlers |-> h, err |-> "nil"]
    ELSE IF h.registered THEN [handlers |-> h, err |-> ErrServerOptions]
    ELSE RegisterHandlers([registered |-> TRUE, caps |-> Head(modelHandlers)],
                          Tail(modelHandlers))

\* What InitializeAPI leaves and returns for the registry h and the options o.
InitializeAPIRun(h, o) ==
    IF ~o.DefaultHandlerModels /\ o.ModelHandlers = <<>>
    THEN [handlers |-> h, err |-> ErrServerOptions]
    ELSE RegisterHandlers(h, o.ModelHandlers)

\* API.InitializeAPI
InitializeAPI ==
    /\ pc = "init"
    /\ handlers' = InitializeAPIRun(handlers, options).handlers
    /\ pc' = IF InitializeAPIRun(handlers, options).err = "nil" THEN "idle" ELSE "failed"
    /\ UNCHANGED <<relation, db, tx, req, trace, resp, pre, pair, listVars, parsed, twin, links>>

\* The capabilities a handler given for the model may have.
HandlerCaps == {{"core"}} \cup SUBSET (Caps \ {"core"})

InitInit ==
    /\ handlers = [registered |-> FALSE, caps |-> {}]
    /\ relation \in {"hasOne", "hasMany"}
    /\ db = NoData
    /\ tx = "none"
    /\ req = NoReq
    /\ trace = <<>>
    /\ resp = <<>>
    /\ pre = NoData
    /\ pc = "init"
    /\ pair = NoPair
    /\ options \in [DefaultPageSize : {0}, NoContentOnInsert : {FALSE},
                    ModelHandlers : UNION {[1..n -> HandlerCaps] : n \in 0..MaxHandlers},
                    DefaultHandlerModels : BOOLEAN]
    /\ heap = NoPagination
    /\ scopes = NoScopes
    /\ parsed = NoCall
    /\ twin = NoTwin
    /\ links = NoLinks

NextInit ==
    \/ InitializeAPI
    \/ Next

SpecInit == InitInit /\ [][NextInit]_vars

\* ------------------------------------------------- two requests at a time

\* Two insert- or delete-relationship requests on the same root and to-many
\* relation are served at the same time, each in its own goroutine and its own
\* transaction. A handler takes two steps: it begins its transaction, reads
\* the root and reconciles the current members with the submitted ones; then
\* it writes the relation and commits. The handlers begin their transactions
\* without options and take no lock, so what the second transaction may do
\* after the first one committed is the storage's choice: it lets the write
\* through or it refuses it.
Procs == {"a", "b"}

NoFault == [point |-> "none", rollbackErr |-> FALSE]

\* The members the handler of request q reads off its model once the get chain
\* g returned.
PairCurrent(q, g) == RelationValue(g.c, q.op = "deleteRel")

\* The members the handler of request q hands to HandleSetRelations.
PairToSet(q, current) ==
    IF q.op = "insertRel" THEN current \o ToInsert(current, q.data)
    ELSE NewRelations(current, q.data)

\* The handler of request q has nothing to write.
PairNoOp(q, current) ==
    IF q.op = "insertRel" THEN Len(PairToSet(q, current)) = Len(current)
    ELSE Range(q.data) \cap Range(current) = {}

\* The storage after HandleSetRelations and the commit of a transaction that
\* is given the members toSet.
PairCommitted(toSet) ==
    Commit(HandleSetRelations(Begin(NewCtx, "api", NoFault).c, "tx", toSet, NoFault).c,
           "api").db

\* Begin, the get chain and the reconciliation of the handler of request p.
PairRead(p) ==
    /\ pair[p].pc = "start"
    /\ LET g == getHandleChain(Begin(NewCtx, "api", NoFault).c, "tx", NoFault)
           current == PairCurrent(pair[p], g)
       IN pair' = [pair EXCEPT ![p].pc = IF g.err # "nil" THEN "failed" ELSE "read",
                               ![p].seen = db.members,
                               ![p].toSet = PairToSet(pair[p], current),
                               ![p].noop = PairNoOp(pair[p], current)]
    /\ UNCHANGED <<handlers, relation, db, tx, req, trace, resp, pre, pc, listVars, parsed, twin, links>>

\* HandleSetRelations and the commit of the handler of request p.
PairWrite(p) ==
    /\ pair[p].pc = "read"
    /\ pair' = [pair EXCEPT ![p].pc = "committed"]
    /\ db' = IF pair[p].noop THEN db ELSE PairCommitted(pair[p].toSet)
    /\ UNCHANGED <<handlers, relation, tx, req, trace, resp, pre, pc, listVars, parsed, twin, links>>

\* The storage refuses the write of a transaction whose read is out of date;
\* the handler answers the error and rolls back.
PairRefused(p) ==
    /\ pair[p].pc = "read"
    /\ ~pair[p].noop
    /\ db.members # pair[p].seen
    /\ pair' = [pair EXCEPT ![p].pc = "failed"]
    /\ UNCHANGED <<handlers, relation, db, tx, req, trace, resp, pre, pc, listVars, parsed, twin, links>>

InitPair ==
    /\ handlers = [registered |-> FALSE, caps |-> {}]
    /\ relation = "hasMany"
    /\ db \in [row : {TRUE}, members : SUBSET Ids]
    /\ tx = "none"
    /\ req = NoReq
    /\ trace = <<>>
    /\ resp = <<>>
    /\ pre = db
    /\ pc = "idle"
    /\ options = OptionsOf(handlers, 0, FALSE)
    /\ heap = NoPagination
    /\ scopes = NoScopes
    /\ parsed = NoCall
    /\ twin = NoTwin
    /\ links = NoLinks
    /\ pair \in [Procs -> [op : {"insertRel", "deleteRel"}, data : Submitted \ {<<>>},
                           pc : {"start"}, seen : {{}}, toSet : {<<>>}, noop : {FALSE}]]

NextPair ==
    \/ \E p \in Procs : PairRead(p)
    \/ \E p \in Procs : PairWrite(p)
    \/ \E p \in Procs : PairRefused(p)

SpecPair == InitPair /\ [][NextPair]_vars

\* --------------------------------------------- two list requests at a time

\* Two list requests of one model are served at the same time by the one
\* http.HandlerFunc that handleList returned. A request takes three steps: its
\* scope is made and the default pagination applied; the before-list hook of
\* the model's handler runs and may change the scope's pagination; the storage
\* is queried with the limit the scope's pagination then holds.

\* handleList outside the returned function: the default Pagination object is
\* made once, when the default page size is positive.
defaultPagination == IF options.DefaultPageSize > 0 THEN "default" ELSE "nil"

\* `s.Pagination = &(*defaultPagination)`: taking the address of what a
\* pointer points to gives that pointer back.
ApplyDefaultPagination(pagination) ==
    IF defaultPagination # "nil" /\ pagination = "nil" THEN defaultPagination
    ELSE pagination

\* createListScope and the default pagination, for request p whose URL asks
\* for the page limit `limit` (0: no pagination parameter).
ListCreateScope(p) ==
    /\ scopes[p].pc = "start"
    /\ \E limit \in 0..MaxPageSize :
           /\ heap' = IF limit > 0 THEN [heap EXCEPT ![p] = [Limit |-> limit, Offset |-> 0]]
                       ELSE heap
           /\ scopes' = [scopes EXCEPT
                  ![p].pc = "scoped",
                  ![p].Pagination = ApplyDefaultPagination(IF limit > 0 THEN p ELSE "nil"),
                  ![p].given = IF limit > 0 THEN limit ELSE options.DefaultPageSize]
    /\ UNCHANGED <<handlers, relation, db, tx, req, trace, resp, pre, pc, pair, parsed, twin, links, options>>

\* HandleBeforeList of the model's handler: it is given the scope and may set
\* the limit of the scope's pagination, or leave it.
ListBeforeHook(p) ==
    /\ scopes[p].pc = "scoped"
    /\ \/ /\ scopes[p].Pagination # "nil"
          /\ \E limit \in 1..MaxPageSize :
                 /\ heap' = [heap EXCEPT ![scopes[p].Pagination].Limit = limit]
                 /\ scopes' = [scopes EXCEPT ![p].pc = "hooked", ![p].given = limit]
       \/ /\ heap' = heap
          /\ scopes' = [scopes EXCEPT ![p].pc = "hooked"]
    /\ UNCHANGED <<handlers, relation, db, tx, req, trace, resp, pre, pc, pair, parsed, twin, links, options>>

\* HandleList: QueryFind with the limit of the scope's pagination.
ListFind(p) ==
    /\ scopes[p].pc = "hooked"
    /\ scopes' = [scopes EXCEPT
           ![p].pc = "done",
           ![p].limit = IF scopes[p].Pagination = "nil" THEN 0
                        ELSE heap[scopes[p].Pagination].Limit]
    /\ UNCHANGED <<handlers, relation, db, tx, req, trace, resp, pre, pc, pair, parsed, twin, links, options, heap>>

InitList ==
    /\ handlers = [registered |-> TRUE, caps |-> {"before"}]
    /\ relation = "hasMany"
    /\ db = NoData
    /\ tx = "none"
    /\ req = NoReq
    /\ trace = <<>>
    /\ resp = <<>>
    /\ pre = db
    /\ pc = "idle"
    /\ pair = NoPair
    /\ options \in {OptionsOf(handlers, k, FALSE) : k \in 0..MaxPageSize}
    /\ heap = IF options.DefaultPageSize > 0
              THEN [NoPagination EXCEPT !["default"] =
                       [Limit |-> options.DefaultPageSize, Offset |-> 0]]
              ELSE NoPagination
    /\ scopes = [p \in Procs |-> [pc |-> "start", Pagination |-> "nil", given |-> 0,
                                  limit |-> 0]]
    /\ parsed = NoCall
    /\ twin = NoTwin
    /\ links = NoLinks

NextList ==
    \/ \E p \in Procs : ListCreateScope(p)
    \/ \E p \in Procs : ListBeforeHook(p)
    \/ \E p \in Procs : ListFind(p)

SpecList == InitList /\ [][NextList]_vars

\* --------------------------------------------- parseFieldSetAndIncludes

\* The models the function is run on: M with the primary key M.id, the
\* attribute M.attr, the foreign key M.fk, the belongs-to relation M.owner (to
\* R, through M.fk) and the has-many relation M.items (to R); R with R.id,
\* R.attr, R.fk and the belongs-to relation R.root (to M, through R.fk).
ModelFields(mStruct) ==
    IF mStruct = "M" THEN {"M.id", "M.attr", "M.fk", "M.owner", "M.items"}
    ELSE {"R.id", "R.attr", "R.fk", "R.root"}

Primary(mStruct) == mStruct \o ".id"

IsRelation(field) == field \in {"M.owner", "M.items", "R.root"}

IsBelongsTo(field) == field \in {"M.owner", "R.root"}

ForeignKey(field) == IF field = "M.owner" THEN "M.fk" ELSE "R.fk"

RelatedModelStruct(field) == IF field = "R.root" THEN "M" ELSE "R"

RelationFields(mStruct) == {f \in ModelFields(mStruct) : IsRelation(f)}

\* FieldSet.Contains
Contains(fieldSet, field) == \E i \in DOMAIN fieldSet : fieldSet[i] = field

\* An entry of an include list is a query.IncludedRelation: its relation, its
\* Fieldset slice, the part of the slice's array behind the slice's length
\* (array: empty when the capacity is the length) and its own include list.
IncludedRelation(field, fieldset, array, includes) ==
    [StructField |-> field, Fieldset |-> fieldset, array |-> array,
     IncludedRelations |-> includes]

\* An append that is stored back into the entry.
AppendToEntry(entry, relatedPrimary) ==
    [entry EXCEPT !.Fieldset = Append(@, relatedPrimary)]

\* `fs := includes[i].Fieldset; fs = append(fs, relatedPrimary)`: the local
\* slice is appended to; the entry keeps its slice, and the element is written
\* behind it when the array has room.
AppendToLocal(entry, relatedPrimary) ==
    IF entry.array = <<>> THEN entry
    ELSE [entry EXCEPT !.array = <<relatedPrimary>> \o Tail(@)]

\* The loop over `includes` that looks for the relation `field`: the first
\* entry of the relation, 0 when there is none.
FindIncluded(includes, field) ==
    IF \E i \in DOMAIN includes : includes[i].StructField = field
    THEN CHOOSE i \in DOMAIN includes :
             /\ includes[i].StructField = field
             /\ \A j \in 1..(i - 1) : includes[j].StructField # field
    ELSE 0

\* An include entry that has no fieldset.
SynthesizedEmpty(field) == IncludedRelation(field, <<>>, <<>>, <<>>)

\* The include entry made for a relation of the field list that is not among
\* the includes.
SynthesizedInclude(field) ==
    IncludedRelation(field, <<Primary(RelatedModelStruct(field))>>, <<>>, <<>>)

\* The relation `field` of the field list, when entry i of the includes is its
\* include (i = 0: none). acc holds resultFieldset (fieldset), resultIncludes
\* (includes) and the function's argument `includes` (input).
ParseRelation(field, acc, i) ==
    IF i = 0
    THEN [acc EXCEPT !.includes = Append(@, SynthesizedInclude(field))]
    ELSE IF Contains(acc.input[i].Fieldset, Primary(RelatedModelStruct(field))) THEN acc
    ELSE [acc EXCEPT !.input[i] = AppendToLocal(@, Primary(RelatedModelStruct(field)))]

\* The foreign key of a belongs-to relation of the field list.
ParseForeignKey(field, acc) ==
    IF IsBelongsTo(field) /\ ~Contains(acc.fieldset, ForeignKey(field))
    THEN [acc EXCEPT !.fieldset = Append(@, ForeignKey(field))]
    ELSE acc

\* One turn of the loop over the field list.
ParseField(field, acc) ==
    IF IsRelation(field)
    THEN ParseRelation(field, ParseForeignKey(field, acc), FindIncluded(acc.input, field))
    ELSE [acc EXCEPT !.fieldset = Append(@, field)]

\* The loop over the field list.
RECURSIVE ParseFields(_, _)
ParseFields(fieldSet, acc) ==
    IF fieldSet = <<>> THEN acc
    ELSE ParseFields(Tail(fieldSet), ParseField(Head(fieldSet), acc))

\* parseFieldSetAndIncludes(mStruct, fieldSet, includes): fieldset and
\* includes are the two results, input is the argument `includes` as the call
\* leaves it.
RECURSIVE parseFieldSetAndIncludes(_, _, _)
ParseSubInclude(subInclude) ==
    parseFieldSetAndIncludes(RelatedModelStruct(subInclude.StructField),
                             subInclude.Fieldset, subInclude.IncludedRelations)

parseFieldSetAndIncludes(mStruct, fieldSet, includes) ==
    ParseFields(fieldSet,
        [fieldset |-> <<Primary(mStruct)>>,
         includes |-> [i \in DOMAIN includes |->
                          IncludedRelation(includes[i].StructField,
                                           ParseSubInclude(includes[i]).fieldset, <<>>,
                                           ParseSubInclude(includes[i]).includes)],
         input |-> [i \in DOMAIN includes |->
                       [includes[i] EXCEPT
                           !.IncludedRelations = ParseSubInclude(includes[i]).input]]])

\* The field lists of a model of up to n fields.
FieldLists(mStruct, n) == UNION {[1..k -> ModelFields(mStruct)] : k \in 0..n}

\* The fieldset of an include entry: none or one field of the related model;
\* its array has no room or room for one more field.
EntrySlices(field) ==
    [Fieldset : FieldLists(RelatedModelStruct(field), 1), array : {<<>>, <<"">>}]

\* The include entries of a model that have no includes of their own.
IncludeLeaves(mStruct) ==
    UNION {{IncludedRelation(f, sl.Fieldset, sl.array, <<>>) : sl \in EntrySlices(f)} :
              f \in RelationFields(mStruct)}

\* The include entries of a model: each with no include or one of its own.
IncludeEntries(mStruct) ==
    UNION {{IncludedRelation(f, sl.Fieldset, sl.array, sub) :
                sl \in EntrySlices(f),
                sub \in {<<>>} \cup {<<e>> : e \in IncludeLeaves(RelatedModelStruct(f))}} :
              f \in RelationFields(mStruct)}

\* The include lists of a request: no entry or one.
IncludeLists(mStruct) == {<<>>} \cup {<<e>> : e \in IncludeEntries(mStruct)}

\* The function is called on the field list and the includes of a request.
ParseCall ==
    /\ parsed.pc = "input"
    /\ parsed' = [parsed EXCEPT
           !.pc = "parsed",
           !.out = parseFieldSetAndIncludes(parsed.mStruct, parsed.fieldSet, parsed.includes),
           !.input = parseFieldSetAndIncludes(parsed.mStruct, parsed.fieldSet,
                                              parsed.includes).input]
    /\ UNCHANGED <<handlers, relation, db, tx, req, trace, resp, pre, pc, pair, listVars, twin, links>>

\* The function is called once more on the same field list and includes, as
\* the first call left them.
ParseAgain ==
    /\ parsed.pc = "parsed"
    /\ parsed' = [parsed EXCEPT
           !.pc = "again",
           !.again = parseFieldSetAndIncludes(parsed.mStruct, parsed.fieldSet, parsed.input)]
    /\ UNCHANGED <<handlers, relation, db, tx, req, trace, resp, pre, pc, pair, listVars, twin, links>>

NoResult == [fieldset |-> <<>>, includes |-> <<>>, input |-> <<>>]

InitParse ==
    /\ handlers = [registered |-> FALSE, caps |-> {}]
    /\ relation = "hasMany"
    /\ db = NoData
    /\ tx = "none"
    /\ req = NoReq
    /\ trace = <<>>
    /\ resp = <<>>
    /\ pre = db
    /\ pc = "idle"
    /\ pair = NoPair
    /\ options = OptionsOf(handlers, 0, FALSE)
    /\ heap = NoPagination
    /\ scopes = NoScopes
    /\ parsed \in [mStruct : {"M"}, fieldSet : FieldLists("M", MaxFields),
                    includes : IncludeLists("M"), pc : {"input"}, out : {NoResult},
                    input : {<<>>}, again : {NoResult}]
    /\ twin = NoTwin
    /\ links = NoLinks

NextParse ==
    \/ ParseCall
    \/ ParseAgain

SpecParse == InitParse /\ [][NextParse]_vars

\* ------------------------------------------- the links of a list response

\* handleList after the chain returned the page: the pagination links of the
\* response, for a scope with pagination p (p.set is FALSE for a scope
\* without one) over a collection of total rows.

\* A link that is left out of the response.
NoLink == [present |-> FALSE, Offset |-> 0]

LinkTo(p) == [present |-> TRUE, Offset |-> p.Offset]

\* len(s.Models): the rows of the page.
PageRows(p, total) ==
    IF ~p.set THEN total
    ELSE IF total <= p.Offset THEN 0
    ELSE IF total - p.Offset < p.Limit THEN total - p.Offset ELSE p.Limit

\* query.Pagination.Next, Previous, First and Last: the page after, the page
\* before, the first and the last page; Next and Previous return the
\* pagination itself when there is no further page in their direction.
PaginationNext(p, total) ==
    IF p.Offset + p.Limit >= total THEN p ELSE [p EXCEPT !.Offset = p.Offset + p.Limit]

PaginationPrevious(p) ==
    IF p.Offset = 0 THEN p
    ELSE IF p.Offset < p.Limit THEN [p EXCEPT !.Offset = 0]
    ELSE [p EXCEPT !.Offset = p.Offset - p.Limit]

PaginationFirst(p) == [p EXCEPT !.Offset = 0]

PaginationLast(p, total) ==
    [p EXCEPT !.Offset = IF total = 0 THEN 0 ELSE ((total - 1) \div p.Limit) * p.Limit]

\* result.PaginationLinks: the self link alone for a scope without pagination
\* and for an empty page; otherwise Next and Prev when the library returned
\* another pagination than the scope's, and Last and First.
PaginationLinks(p, total) ==
    IF ~p.set \/ PageRows(p, total) = 0
    THEN [Self |-> TRUE, Next |-> NoLink, Prev |-> NoLink, First |-> NoLink, Last |-> NoLink]
    ELSE [Self |-> TRUE,
          Next |-> IF PaginationNext(p, total) # p
                   THEN LinkTo(PaginationNext(p, total)) ELSE NoLink,
          Prev |-> IF PaginationPrevious(p) # p
                   THEN LinkTo(PaginationPrevious(p)) ELSE NoLink,
          First |-> LinkTo(PaginationFirst(p)),
          Last |-> LinkTo(PaginationLast(p, total))]

\* The paginations and totals the links are made for, and the example of a
\* third page of five.
LinkInputs ==
    [total : 0..MaxTotal,
     p : [set : BOOLEAN, Limit : 1..MaxPageSize, Offset : 0..MaxTotal]] \cup
    {[total |-> 95, p |-> [set |-> TRUE, Limit |-> 20, Offset |-> 40]]}

\* The list response is marshalled with its links.
ListLinks ==
    /\ ~links.done
    /\ links' = [links EXCEPT !.done = TRUE, !.out = PaginationLinks(links.p, links.total)]
    /\ UNCHANGED <<handlers, relation, db, tx, req, trace, resp, pre, pc, pair, listVars,
                   parsed, twin>>

InitLinks ==
    /\ handlers = [registered |-> FALSE, caps |-> {}]
    /\ relation = "hasMany"
    /\ db = NoData
    /\ tx = "none"
    /\ req = NoReq
    /\ trace = <<>>
    /\ resp = <<>>
    /\ pre = NoData
    /\ pc = "idle"
    /\ pair = NoPair
    /\ options = OptionsOf(handlers, 0, FALSE)
    /\ heap = NoPagination
    /\ scopes = NoScopes
    /\ parsed = NoCall
    /\ twin = NoTwin
    /\ \E i \in LinkInputs :
           links = [total |-> i.total, p |-> i.p, done |-> FALSE,
                    out |-> [Self |-> FALSE, Next |-> NoLink, Prev |-> NoLink,
                             First |-> NoLink, Last |-> NoLink]]

NextLinks == ListLinks

SpecLinks == InitLinks /\ [][NextLinks]_vars

\* ------------------------------------------- with and without a core handler

\* One request is served twice on the same stored data: first for a model
\* that has no handler, or one without the core capability, so that the chain
\* takes the default handler; then for a model whose handler has the core
\* capability as well and delegates to the default handler.

Endpoints ==
    {"insert", "update", "get", "list", "delete", "getRelated", "getRelationship",
     "insertRel", "updateRel", "deleteRel"}

\* The failing calls and the requests of an endpoint.
FaultsFor(op) ==
    CASE op = "insert" -> InsertFaults
      [] op = "update" -> UpdateFaults
      [] op = "get" -> GetFaults
      [] op = "list" -> ListFaults
      [] op = "delete" -> DeleteFaults
      [] op \in {"getRelated", "getRelationship"} -> GetRelatedFaults
      [] OTHER -> RelationshipFaults(op)

RequestsOf(op, f) ==
    CASE op = "insert" -> InsertRequests
      [] op = "update" -> UpdateRequests
      [] op = "get" -> GetRequests
      [] op = "list" -> ListRequests
      [] op = "delete" -> DeleteRequests
      [] op = "getRelated" -> GetRelatedRequests
      [] op = "getRelationship" -> GetRelationshipRequests
      [] OTHER -> RelationshipRequests(op, f)

\* The handler the router calls for request r.
Route(r, f) ==
    CASE r.op = "insert" -> handleInsertRun(NewCtx, r, f)
      [] r.op = "update" -> handleUpdateRun(NewCtx, r, f)
      [] r.op = "get" -> handleGetRun(NewCtx, r, f)
      [] r.op = "list" -> handleListRun(NewCtx, r, f)
      [] r.op = "delete" -> handleDeleteRun(NewCtx, r, f)
      [] r.op = "getRelated" -> handleGetRelatedRun(NewCtx, r, f)
      [] r.op = "getRelationship" -> handleGetRelationshipRun(NewCtx, r, f)
      [] r.op = "insertRel" -> handleInsertRelationshipRun(NewCtx, r, f)
      [] r.op = "updateRel" -> handleUpdateRelationshipRun(NewCtx, r, f)
      [] OTHER -> handleDeleteRelationshipRun(NewCtx, r, f)

NoOutcome == <<>>

\* The request is served for the model without a core handler.
TwinFirst ==
    /\ pc = "idle"
    /\ twin.out = NoOutcome
    /\ \E op \in Endpoints :
           /\ twin.f \in FaultsFor(op)
           /\ \E r \in RequestsOf(op, twin.f) : Serve(r, Route(r, twin.f))

\* The same server with the stored data of before the request, and with a
\* handler of the model that has the core capability.
TwinSwitch ==
    /\ pc = "done"
    /\ twin.out = NoOutcome
    /\ twin' = [twin EXCEPT !.out = [db |-> db, tx |-> tx, trace |-> trace, resp |-> resp]]
    /\ handlers' = [registered |-> TRUE, caps |-> handlers.caps \cup {"core"}]
    /\ db' = pre
    /\ tx' = "none"
    /\ trace' = <<>>
    /\ resp' = <<>>
    /\ pc' = "idle"
    /\ UNCHANGED <<relation, req, pre, pair, listVars, parsed, links>>

\* The request is served again.
TwinSecond ==
    /\ pc = "idle"
    /\ twin.out # NoOutcome
    /\ Serve(req, Route(req, twin.f))

InitTwin ==
    /\ handlers \in {[registered |-> FALSE, caps |-> {}]} \cup
                    [registered : {TRUE}, caps : SUBSET (Caps \ {"core"})]
    /\ relation \in {"hasOne", "hasMany"}
    /\ db \in {NoData, [row |-> TRUE, members |-> {}], [row |-> TRUE, members |-> {1}]}
    /\ tx = "none"
    /\ req = NoReq
    /\ trace = <<>>
    /\ resp = <<>>
    /\ pre = db
    /\ pc = "idle"
    /\ pair = NoPair
    /\ options = OptionsOf(handlers, 0, FALSE)
    /\ heap = NoPagination
    /\ scopes = NoScopes
    /\ parsed = NoCall
    /\ twin \in [f : UNION {FaultsFor(op) : op \in Endpoints}, out : {NoOutcome}]
    /\ links = NoLinks

NextTwin ==
    \/ TwinFirst
    \/ TwinSwitch
    \/ TwinSecond

SpecTwin == InitTwin /\ [][NextTwin]_vars

\* ---------------------------------------------------------------- observations

\* The calls of the request just served, by their place in the trace.
Idx(ev, by) == {i \in DOMAIN trace : trace[i].ev = ev /\ trace[i].by = by}

IdxEv(ev) == {i \in DOMAIN trace : trace[i].ev = ev}

\* The chains of the resource endpoints and those of the relationship endpoints.
ResourceChains == {"insert", "get", "list", "update", "delete", "getRelation"}

RelationshipChains == {"insertRel", "updateRel", "deleteRel"}

Stages == {"before", "core", "after"}

StageRets == {"before.ret", "core.ret", "after.ret"}

StageEvs == {"before.call", "core.call", "after.call"} \cup StageRets

MutationEvs ==
    {"InsertQuery", "Update", "DeleteQuery", "AddRelations", "SetRelations",
     "QuerySetRelations", "QueryClearRelations"}

TxEvs == {"Begin", "Commit", "Rollback"}

\* The request was answered with an error / with the success status s.
ErrorResponse == Len(resp) = 1 /\ resp[1].err # "nil"

Success(s) == Len(resp) = 1 /\ resp[1].err = "nil" /\ resp[1].status = s

\* The one response of the request is the error err with the status s.
Answered(s, err) == Len(resp) = 1 /\ resp[1].status = s /\ resp[1].err = err

\* ---------------------------------------------------------------- C1 .. C10

\* C1: in an operation that runs in a transaction, no commit is made when a
\* stage of the operation returned an error, and when the handler has an
\* after-hook the commit follows the return of that hook.
C1_CommitOnlyAfterChain ==
    \A ch \in {"insert", "update"} \cup RelationshipChains :
        /\ (\E st \in StageRets : \E j \in Idx(st, ch) : trace[j].res # "nil")
               => IdxEv("Commit") = {}
        /\ (Has("after") /\ Idx("core.call", ch) # {})
               => \A i \in IdxEv("Commit") : \E j \in Idx("after.ret", ch) : j < i

\* C2: an insert that carries the has-one or has-many relation and whose
\* after-insert hook returned an error leaves the stored relation as it was
\* before the request.
C2_AttachmentRolledBack ==
    (req.op = "insert" /\ "relation" \in req.fields
        /\ \E j \in Idx("after.ret", "insert") : trace[j].res # "nil")
    => db.members = pre.members

\* C3: after a successful insert-relationship request on the to-many relation
\* the stored members are the ones stored before united with the submitted.
C3_InsertRelationshipUnion ==
    (req.op = "insertRel" /\ req.id = "ok" /\ relation = "hasMany"
        /\ (Success(204) \/ Success(200)))
    => db.members = pre.members \cup Range(req.data)

\* C4: a relationship request that began its transaction and ends with an
\* error response has rolled the transaction back.
C4_RelationshipErrorRollsBack ==
    (req.op \in RelationshipChains /\ ErrorResponse
        /\ \E i \in Idx("Begin", "api") : trace[i].res = "nil")
    => tx = "rolledback"

\* C5: when HandleInsert or HandleUpdate began the transaction itself and
\* returns an error, it rolled the transaction back before it returned and the
\* error is not the one of the rollback.
C5_DefaultHandlerRollsBack ==
    \A ch \in {"insert", "update"} : \A i \in Idx("core.ret", ch) :
        (trace[i].res # "nil"
            /\ \E b \in Idx("Begin", "default") : b < i /\ trace[b].res = "nil")
        => /\ \E k \in Idx("Rollback", "default") : k < i
           /\ trace[i].res # ErrRollback

\* C6: in the chains of insert, get, list, update, delete and get-related each
\* stage is called at most once and returns before another stage is called,
\* the hooks are called exactly when the handler has them, and the calls come
\* in the order before-hook, core handler, after-hook.
C6_StagesInOrder ==
    \A ch \in ResourceChains :
        /\ \A st \in Stages :
               /\ Cardinality(Idx(st \o ".call", ch)) <= 1
               /\ \A i \in Idx(st \o ".call", ch) :
                      /\ i < Len(trace)
                      /\ \E j \in Idx(st \o ".ret", ch) :
                             /\ i < j
                             /\ \A k \in (i + 1)..(j - 1) :
                                    ~(trace[k].by = ch /\ trace[k].ev \in StageEvs)
        /\ \A i \in Idx("core.call", ch) :
               /\ Has("before") => \E j \in Idx("before.ret", ch) : j < i
               /\ \A j \in Idx("before.call", ch) : j < i
               /\ \A j \in Idx("after.call", ch) : i < j
        /\ \A i \in Idx("after.call", ch) : \E j \in Idx("core.ret", ch) : j < i
        /\ \A i \in Idx("core.ret", ch) :
               (Has("after") /\ trace[i].res = "nil") => Idx("after.call", ch) # {}
        /\ Idx("before.call", ch) # {} => Has("before")
        /\ Idx("after.call", ch) # {} => Has("after")

\* A get-related request went through its three stages.
C6_Witness ==
    /\ req.op = "getRelated"
    /\ \A st \in StageRets : \E i \in Idx(st, "getRelation") : trace[i].res = "nil"

\* C7: when a before-hook returned an error, the core handler and the after-hook
\* of its chain were not called, no storage mutation and no commit followed,
\* the stored data are those of before the request when nothing was written
\* ahead of the hook, and the response is that error.
C7_BeforeHookErrorAborts ==
    \A ch \in ResourceChains \cup RelationshipChains : \A i \in Idx("before.ret", ch) :
        trace[i].res # "nil" =>
            /\ Idx("core.call", ch) = {}
            /\ Idx("after.call", ch) = {}
            /\ \A k \in DOMAIN trace : i < k => trace[k].ev \notin MutationEvs
            /\ IdxEv("Commit") = {}
            /\ (\A k \in 1..i : trace[k].ev \notin MutationEvs) => db = pre
            /\ ErrorResponse
            /\ resp[1].err = trace[i].res

\* The before-hook of an update that runs in a transaction returned an error.
C7_Witness ==
    /\ req.op = "update"
    /\ tx = "rolledback"
    /\ \E i \in Idx("before.ret", "update") : trace[i].res # "nil"

\* The error of the first stage of chain ch that failed before place i.
FirstFailure(ch, i) ==
    LET failed == {j \in 1..(i - 1) : /\ trace[j].by = ch
                                      /\ trace[j].ev \in StageRets
                                      /\ trace[j].res # "nil"}
    IN IF failed = {} THEN "nil"
       ELSE trace[CHOOSE j \in failed : \A k \in failed : j <= k].res

\* C8: a handler chain returns the error of its first failing stage, and nil
\* only when none of its stages failed.
C8_ChainReturnsFirstError ==
    \A i \in IdxEv("chain.ret") : trace[i].res = FirstFailure(trace[i].by, i)

\* The get-related chain returned the error of its after-hook.
C8_Witness ==
    \E i \in Idx("chain.ret", "getRelation") :
        /\ trace[i].res = ErrOf("getRelation.after")
        /\ \E j \in Idx("core.ret", "getRelation") : trace[j].res = "nil"

\* C9: between the call of HandleInsert or HandleUpdate with a transaction as
\* the handle and its return, no transaction is begun, committed or rolled back.
C9_TxHandleReused ==
    \A ch \in {"insert", "update"} : \A i \in Idx("core.call", ch) :
        trace[i].on = "tx" =>
            \A j \in Idx("core.ret", ch) : \A k \in (i + 1)..(j - 1) :
                trace[k].ev \notin TxEvs

\* HandleUpdate was called with a transaction and failed in a relation write.
C9_Witness ==
    \E i \in Idx("core.ret", "update") :
        /\ trace[i].on = "tx"
        /\ trace[i].res \in {ErrOf("AddRelations"), ErrOf("SetRelations")}

\* C10: an insert-relationship request whose submitted members are all stored
\* members answers 204, calls no relation setter and leaves the stored members.
C10_NoOpInsertRelationship ==
    (req.op = "insertRel" /\ req.id = "ok" /\ req.data # <<>>
        /\ Range(req.data) \subseteq pre.members
        /\ \E i \in Idx("GetRelationModels", "api") \cup Idx("GetRelationModel", "api") :
               trace[i].res = "nil")
    => /\ Success(204)
       /\ Idx("core.call", "insertRel") = {}
       /\ IdxEv("QuerySetRelations") \cup IdxEv("QueryClearRelations") = {}
       /\ db.members = pre.members

\* ---------------------------------------------------------------- C11 .. C20

\* The members a relationship handler read off the root model, as the to-many
\* relation gives them and as the to-one relation gives them.
CurrentMembers ==
    IF relation = "hasMany" THEN pre.members ELSE Range(FirstOf(SeqOf(pre.members)))

\* The relationship handler read the current members without an error.
ReadCurrent ==
    \E i \in Idx("GetRelationModels", "api") \cup Idx("GetRelationModel", "api") :
        trace[i].res = "nil"

\* The writes of the relation of the request just served.
RelationWrites == IdxEv("QuerySetRelations") \cup IdxEv("QueryClearRelations")

\* C11: the members that insert-relationship hands to the relation setter hold
\* no identifier twice, also when the submitted list repeats an identifier that
\* is not stored yet.
C11_NoDuplicateMembers ==
    \A i \in Idx("core.call", "insertRel") :
        \A j \in DOMAIN trace[i].arg : \A k \in DOMAIN trace[i].arg :
            j # k => trace[i].arg[j] # trace[i].arg[k]

\* C12: a delete-relationship request that names at least one current member
\* and succeeds made exactly one write of the relation, and the stored members
\* are the current ones without the submitted ones: the members not submitted
\* are kept, and the relation is cleared when none is left.
C12_DeleteRelationshipDifference ==
    (req.op = "deleteRel" /\ req.id = "ok" /\ ReadCurrent
        /\ Range(req.data) \cap CurrentMembers # {}
        /\ (Success(204) \/ Success(200)))
    => /\ Cardinality(RelationWrites) = 1
       /\ \A i \in RelationWrites : trace[i].res = "nil" /\ trace[i].on = "tx"
       /\ db.members = CurrentMembers \ Range(req.data)
       /\ (CurrentMembers \subseteq Range(req.data)) <=> IdxEv("QueryClearRelations") # {}

\* One of two stored members was deleted and the other one kept.
C12_Witness ==
    /\ req.op = "deleteRel"
    /\ relation = "hasMany"
    /\ pre.members = {1, 2}
    /\ req.data = <<1>>
    /\ Success(204)
    /\ db.members = {2}
    /\ IdxEv("QuerySetRelations") # {}

\* C13: a delete-relationship request none of whose submitted members is a
\* current member, on the to-many and on the to-one relation and also when the
\* relation holds no member at all, answers 204, writes no relation and leaves
\* the stored members as they were.
C13_NoOpDeleteRelationship ==
    (req.op = "deleteRel" /\ req.id = "ok" /\ req.data # <<>> /\ ReadCurrent
        /\ Range(req.data) \cap CurrentMembers = {})
    => /\ Success(204)
       /\ RelationWrites = {}
       /\ db.members = pre.members

\* C14: after a successful update-relationship request the stored members are
\* exactly the submitted ones; an empty submission clears the relation.
C14_UpdateRelationshipReplaces ==
    (req.op = "updateRel" /\ req.id = "ok" /\ (Success(204) \/ Success(200)))
    => /\ db.members = Range(req.data)
       /\ req.data = <<>> => IdxEv("QueryClearRelations") # {}

\* A stored member was replaced by another one.
C14_Witness ==
    /\ req.op = "updateRel"
    /\ pre.members = {1}
    /\ req.data = <<2>>
    /\ Success(204)
    /\ db.members = {2}

\* C15: an insert-, update- or delete-relationship request on the to-one
\* relation that submits more than one member is answered with an error
\* before any transaction is begun and before any storage read or write.
C15_ToOneRejectsMany ==
    (req.op \in RelationshipChains /\ req.id = "ok" /\ relation = "hasOne"
        /\ Len(req.data) > 1)
    => /\ ErrorResponse
       /\ IdxEv("Begin") = {}
       /\ IdxEv("QueryGet") = {}
       /\ RelationWrites = {}

\* C16: in a relationship mutation that writes the relation, the read of the
\* root with its current members and the write go through the one transaction
\* the handler began, with no commit, rollback or other begin between them,
\* and the before-hook and the after-hook are called with that transaction.
C16_ReadAndWriteInOneTx ==
    req.op \in RelationshipChains =>
        /\ \A i \in RelationWrites :
               /\ trace[i].on = "tx"
               /\ \E j \in IdxEv("QueryGet") :
                      /\ j < i
                      /\ trace[j].on = "tx"
                      /\ trace[j].res = "nil"
                      /\ \A k \in j..i : trace[k].ev \notin TxEvs
                      /\ Cardinality({b \in IdxEv("Begin") : b < j}) = 1
        /\ \A i \in DOMAIN trace :
               (trace[i].by \in RelationshipChains /\ trace[i].ev \in StageEvs)
                   => trace[i].on = "tx"

\* A delete-relationship request with both hooks wrote the relation.
C16_Witness ==
    /\ req.op = "deleteRel"
    /\ Has("before") /\ Has("after")
    /\ Idx("before.ret", "deleteRel") # {}
    /\ Idx("after.ret", "deleteRel") # {}
    /\ \E i \in IdxEv("QuerySetRelations") : trace[i].res = "nil"
    /\ tx = "committed"

\* The members after request q was served alone on the members ms, as an
\* insertion adds and a deletion takes away.
Applied(q, ms) ==
    IF q.op = "insertRel" THEN ms \cup Range(q.data) ELSE ms \ Range(q.data)

\* C17: when two relationship mutations on the same root and relation were
\* served at the same time and both committed, the stored members are those
\* of serving the two one after the other in one of the two orders.
C17_PairSerializable ==
    (pair # NoPair /\ \A p \in Procs : pair[p].pc = "committed")
    => db.members \in {Applied(pair["b"], Applied(pair["a"], pre.members)),
                       Applied(pair["a"], Applied(pair["b"], pre.members))}

\* The endpoints that address one resource by the identifier in the URL.
IdEndpoints ==
    {"get", "update", "delete", "getRelated", "getRelationship"} \cup RelationshipChains

\* C18: a get, update, delete, get-related, get-relationship or relationship
\* mutation request whose URL identifier is empty, not parsable or the zero
\* value is answered with a client error, and no hook, handler or storage call
\* is made for it.
C18_BadIdRejected ==
    (req.op \in IdEndpoints /\ req.id # "ok")
    => /\ ErrorResponse
       /\ resp[1].err \in ClientErrors
       /\ trace = <<>>
       /\ db = pre

\* C19: in get-relationship, insert-, update- and delete-relationship the scope
\* the root is read with has the root's primary key as its only fieldset (the
\* relation is included with the related primary key alone).
C19_ScopeOnlyPrimaryKey ==
    req.op \in {"getRelationship"} \cup RelationshipChains =>
        \A i \in IdxEv("NewScope") : trace[i].res = "primary"

\* C20: a relationship mutation that wrote the relation and succeeded answers
\* 200 exactly when the relation setter's result carries metadata and the
\* client accepts the JSON:API media type, and 204 otherwise.
C20_StatusOfRelationshipMutation ==
    (req.op \in RelationshipChains
        /\ (\E ch \in RelationshipChains : \E i \in Idx("core.ret", ch) : trace[i].res = "nil")
        /\ tx = "committed")
    => /\ Success(200) \/ Success(204)
       /\ Success(200) <=> (req.accept /\ req.result \in {"meta", "dataMeta"})

\* ---------------------------------------------------------------- C21 .. C30

\* C21: the Pagination objects of the scopes of two list requests in flight
\* are distinct objects, and the limit a request queries the storage with is
\* the one its own URL, the default page size or its own hook gave it.
C21_PaginationNotShared ==
    scopes # NoScopes =>
        /\ \A p \in Procs : \A q \in Procs \ {p} :
               scopes[p].Pagination # "nil" => scopes[p].Pagination # scopes[q].Pagination
        /\ \A p \in Procs : scopes[p].pc = "done" => scopes[p].limit = scopes[p].given

\* How often a field is in a fieldset.
Count(fieldSet, field) == Cardinality({i \in DOMAIN fieldSet : fieldSet[i] = field})

\* The include entries of an include list and of the include lists below it.
RECURSIVE AllEntries(_)
AllEntries(includes) ==
    {includes[i] : i \in DOMAIN includes} \cup
    UNION {AllEntries(includes[i].IncludedRelations) : i \in DOMAIN includes}

\* C22: the fieldset parseFieldSetAndIncludes returns, and the fieldset of
\* every include entry it resolved from a requested include, holds the primary
\* key of its model exactly once, whatever fields and includes were requested.
C22_PrimaryKeyOnce ==
    (parsed # NoCall /\ parsed.pc # "input")
    => /\ Count(parsed.out.fieldset, Primary(parsed.mStruct)) = 1
       /\ \A e \in AllEntries(parsed.out.includes) :
              Count(e.Fieldset, Primary(RelatedModelStruct(e.StructField))) = 1

\* C23: for every belongs-to relation in the requested field list the returned
\* fieldset holds the foreign key of the relation exactly once, also when the
\* relation is requested more than once or the foreign key is requested too.
C23_ForeignKeyOnce ==
    (parsed # NoCall /\ parsed.pc # "input")
    => \A i \in DOMAIN parsed.fieldSet :
           IsBelongsTo(parsed.fieldSet[i])
               => Count(parsed.out.fieldset, ForeignKey(parsed.fieldSet[i])) = 1

\* C24: for every relation of the requested field list the returned include
\* list has an entry of that relation whose fieldset holds the primary key of
\* the related model. When the relation is not among the requested includes
\* the entry is a new one with the related primary key as its whole fieldset
\* and no includes; otherwise it is the entry resolved from the requested
\* include, at the place of that include, with the non-relation fields the
\* include asked for.
C24_RelationsIncluded ==
    (parsed # NoCall /\ parsed.pc # "input")
    => \A k \in DOMAIN parsed.fieldSet :
           IsRelation(parsed.fieldSet[k]) =>
               /\ \E e \in {parsed.out.includes[i] : i \in DOMAIN parsed.out.includes} :
                      /\ e.StructField = parsed.fieldSet[k]
                      /\ Contains(e.Fieldset, Primary(RelatedModelStruct(parsed.fieldSet[k])))
               /\ FindIncluded(parsed.includes, parsed.fieldSet[k]) = 0
                      => \E i \in DOMAIN parsed.out.includes :
                             /\ i > Len(parsed.includes)
                             /\ parsed.out.includes[i].StructField = parsed.fieldSet[k]
                             /\ parsed.out.includes[i].Fieldset =
                                    <<Primary(RelatedModelStruct(parsed.fieldSet[k]))>>
                             /\ parsed.out.includes[i].IncludedRelations = <<>>
               /\ \A i \in DOMAIN parsed.includes :
                      parsed.includes[i].StructField = parsed.fieldSet[k]
                          => /\ parsed.out.includes[i].StructField = parsed.fieldSet[k]
                             /\ \A j \in DOMAIN parsed.includes[i].Fieldset :
                                    ~IsRelation(parsed.includes[i].Fieldset[j])
                                        => Contains(parsed.out.includes[i].Fieldset,
                                                    parsed.includes[i].Fieldset[j])
                             /\ \A e \in {parsed.out.includes[j] :
                                             j \in (Len(parsed.includes) + 1)..Len(parsed.out.includes)} :
                                    e.StructField # parsed.fieldSet[k]

\* Two relations were requested, one of them among the includes: its entry was
\* resolved and an entry was made for the other one.
C24_Witness ==
    /\ parsed # NoCall
    /\ parsed.pc = "parsed"
    /\ parsed.fieldSet = <<"M.owner", "M.items">>
    /\ Len(parsed.includes) = 1
    /\ parsed.includes[1].StructField = "M.owner"
    /\ parsed.includes[1].Fieldset = <<"R.attr">>
    /\ Len(parsed.out.includes) = 2
    /\ parsed.out.includes[1].Fieldset = <<"R.id", "R.attr">>
    /\ parsed.out.includes[2] = IncludedRelation("M.items", <<"R.id">>, <<>>, <<>>)

\* An include list as its caller sees it: the relation, the fieldset and the
\* includes of every entry, without the arrays behind the fieldsets.
RECURSIVE IncludeTree(_)
IncludeTree(includes) ==
    [i \in DOMAIN includes |->
        [StructField |-> includes[i].StructField,
         Fieldset |-> includes[i].Fieldset,
         IncludedRelations |-> IncludeTree(includes[i].IncludedRelations)]]

\* C25: a call of parseFieldSetAndIncludes leaves the include list it was
\* given, with the fieldsets and includes of its entries, as it was, and a
\* second call on the same field list and includes returns the same fieldset
\* and the same include list as the first.
C25_ParseIsPure ==
    (parsed # NoCall /\ parsed.pc # "input")
    => /\ IncludeTree(parsed.input) = IncludeTree(parsed.includes)
       /\ parsed.pc = "again"
              => /\ parsed.again.fieldset = parsed.out.fieldset
                 /\ IncludeTree(parsed.again.includes) = IncludeTree(parsed.out.includes)

\* The function was called twice on a requested relation whose include lacks
\* the related primary key and whose fieldset array has room for it.
C25_Witness ==
    /\ parsed # NoCall
    /\ parsed.pc = "again"
    /\ parsed.fieldSet = <<"M.items">>
    /\ Len(parsed.includes) = 1
    /\ parsed.includes[1] = IncludedRelation("M.items", <<"R.attr">>, <<"">>, <<>>)
    /\ parsed.input[1].array = <<"R.id">>
    /\ parsed.again.includes[1].Fieldset = <<"R.id", "R.attr">>

ParametersParsed ==
    /\ pc = "done"
    /\ req.id = "ok"
    /\ \A i \in DOMAIN resp : resp[i].err # ErrOf("ParseParameters")

\* C27: a get request, or a get-related or get-relationship request on a
\* to-one relation, whose parsed parameters hold a sorting order, a pagination
\* or a filter is answered 400 and nothing else; no transaction, hook, handler
\* or storage call is made for it.
C27_SingleQueryParameters ==
    (/\ ParametersParsed
     /\ req.params # "none"
     /\ \/ req.op = "get"
        \/ req.op \in {"getRelated", "getRelationship"} /\ relation = "hasOne")
    => /\ Answered(400, ErrInvalidQueryParameter)
       /\ trace = <<>>
       /\ db = pre

\* A get-relationship request with a filter on a to-one relation was refused.
C27_Witness ==
    /\ ParametersParsed
    /\ req.op = "getRelationship"
    /\ relation = "hasOne"
    /\ req.params = "filter"
    /\ Answered(400, ErrInvalidQueryParameter)

\* The storage deleted no row for the delete request and reported no error.
ZeroDeleted ==
    /\ pc = "done"
    /\ req.op = "delete"
    /\ ~pre.row
    /\ \E i \in IdxEv("DeleteQuery") : trace[i].res = "nil"

\* C28: when the storage reports zero deleted rows to the default handler, the
\* handler returns the no-result error, the chain returns it, and the client
\* gets that error and no success status.
C28_DeleteOfNothingFails ==
    ZeroDeleted
    => /\ \E i \in IdxEv("core.ret") : trace[i].res = ErrNoResult
       /\ \E i \in IdxEv("chain.ret") : trace[i].res = ErrNoResult
       /\ Len(resp) = 1
       /\ resp[1].err = ErrNoResult
       /\ resp[1].status >= 400
       /\ IdxEv("after.call") = {}

\* Nothing was deleted inside a transaction, which was rolled back.
C28_Witness ==
    /\ ZeroDeleted
    /\ Answered(404, ErrNoResult)
    /\ IdxEv("Rollback") # {}

\* The payload of the insert or update request was unmarshalled.
Unmarshalled ==
    /\ pc = "done"
    /\ req.op \in {"insert", "update"}
    /\ req.id # "empty"
    /\ \A i \in DOMAIN resp : resp[i].err # ErrOf("Unmarshal")

\* C29: an insert or update whose payload carries no resource, or more than
\* one, is answered with the invalid-input client error and nothing else; no
\* transaction, hook, handler or storage call is made for it.
C29_OneResourceOnly ==
    (Unmarshalled /\ req.n # 1)
    => /\ Answered(400, ErrInvalidInput)
       /\ trace = <<>>
       /\ db = pre
       /\ tx = "none"

\* An update with two resources was refused.
C29_Witness ==
    /\ Unmarshalled
    /\ req.op = "update"
    /\ req.n = 2
    /\ Answered(400, ErrInvalidInput)

\* The calls an insert makes beyond reading its own payload.
InsertCalls == {e \in 1..Len(trace) : trace[e].by # "api" \/ trace[e].ev \in TxEvs}

InsertSucceeded ==
    /\ pc = "done"
    /\ req.op = "insert"
    /\ \E i \in IdxEv("chain.ret") : trace[i].res = "nil"

\* C31: a successful insert is answered 204 exactly when the payload selected
\* the primary key and NoContentOnInsert is set; otherwise it is answered 201
\* when the handler's result carries data and with an internal error when it
\* carries none.
C31_InsertStatus ==
    InsertSucceeded
    => IF selectedPrimary(req) /\ options.NoContentOnInsert
       THEN Success(204)
       ELSE IF req.result = "data"
       THEN Success(201)
       ELSE Answered(500, ErrInternalError)

\* C31 for the results that are not nil.
C31_InsertStatusOfPayload ==
    (InsertSucceeded /\ req.result # "nil") => C31_InsertStatus

\* The pagination of the scope of list request p, as createListScope and the
\* default left it in the state after the step.
C32_Scoped(p) ==
    IF scopes'[p].Pagination = p
    THEN heap'[p] = [Limit |-> scopes'[p].given, Offset |-> 0]
    ELSE IF options.DefaultPageSize > 0
    THEN /\ scopes'[p].Pagination # "nil"
         /\ heap'[scopes'[p].Pagination] = [Limit |-> options.DefaultPageSize, Offset |-> 0]
    ELSE scopes'[p].Pagination = "nil"

\* C32: when a list request's scope has been made, a pagination the client
\* sent is the scope's pagination; without one the scope has limit = the
\* default page size and offset 0 when that size is positive, and no
\* pagination when it is 0.
C32_DefaultPageSize ==
    [][\A p \in Procs :
           (scopes[p].pc = "start" /\ scopes'[p].pc = "scoped") => C32_Scoped(p)]_vars

\* The links of a list response with a pagination have been made.
LinksMade == links # NoLinks /\ links.done /\ links.p.set

\* C33: in the list response for a paginated scope over total rows, Self,
\* First and Last are present, Next is present exactly when offset + limit <
\* total and Prev exactly when offset > 0; for total 95, limit 20, offset 40
\* they are Prev 20, Next 60, First 0 and Last 80.
C33_PaginationLinks ==
    LinksMade
    => /\ links.out.Self
       /\ links.out.First = [present |-> TRUE, Offset |-> 0]
       /\ links.out.Last.present
       /\ links.out.Next.present = (links.p.Offset + links.p.Limit < links.total)
       /\ links.out.Prev.present = (links.p.Offset > 0)
       /\ (links.total = 95 /\ links.p.Limit = 20 /\ links.p.Offset = 40)
              => /\ links.out.Prev.Offset = 20
                 /\ links.out.Next.Offset = 60
                 /\ links.out.Last.Offset = 80

\* C33 for the pages that hold a row.
C33_PaginationLinksOfPage ==
    (LinksMade /\ PageRows(links.p, links.total) > 0) => C33_PaginationLinks

PrimaryWrites == IdxEv("InsertQuery") \cup IdxEv("Update")

AttachWrites == IdxEv("AddRelations") \cup IdxEv("SetRelations")

\* C34: an insert or update with a has-one or has-many relation makes its
\* primary write and its relation writes on the one transaction that was begun
\* for it, the primary write ahead of every relation write; an insert or
\* update without such a relation, a belongs-to relation or none, makes no
\* relation write.
C34_WritesInOneTransaction ==
    (pc = "done" /\ req.op \in {"insert", "update"})
    => IF "relation" \in req.fields
       THEN /\ Cardinality(IdxEv("Begin")) <= 1
            /\ \A i \in PrimaryWrites \cup AttachWrites :
                   /\ trace[i].on = "tx"
                   /\ \E b \in IdxEv("Begin") : b < i /\ trace[b].res = "nil"
            /\ \A j \in AttachWrites :
                   \E i \in PrimaryWrites : i < j /\ trace[i].res = "nil"
       ELSE AttachWrites = {}

\* An insert with a to-many relation was written and committed in the
\* transaction the default handler began.
C34_Witness ==
    /\ pc = "done"
    /\ req.op = "insert"
    /\ req.fields = {"belongsTo", "relation"}
    /\ \E b \in Idx("Begin", "default") :
           \E i \in IdxEv("InsertQuery") :
               \E j \in IdxEv("SetRelations") :
                   b < i /\ i < j /\ trace[j].res = "nil" /\ trace[j].on = "tx"
    /\ tx = "committed"
    /\ Success(201)

\* C35: the members that insert-relationship hands to the relation setter of
\* the to-one relation are one at most, also when the relation holds a member
\* that is not the submitted one.
C35_ToOneSetsOneMember ==
    relation = "hasOne"
    => \A i \in Idx("core.call", "insertRel") : Len(trace[i].arg) <= 1

\* The to-one relation held member 2 and member 1 was submitted: the setter
\* was called with member 1 alone.
C35_Witness ==
    /\ relation = "hasOne"
    /\ req.op = "insertRel"
    /\ pre.members = {2}
    /\ req.data = <<1>>
    /\ \E i \in Idx("core.call", "insertRel") : trace[i].arg = <<1>>

\* The registry after InitializeAPI returned: it failed when the model was
\* given two handlers or more, or no handler without being a model of the
\* default handler; otherwise the model has the one handler given for it, or
\* none.
RegistryOfOptions ==
    IF pc = "failed"
    THEN \/ Len(options.ModelHandlers) >= 2
         \/ options.ModelHandlers = <<>> /\ ~options.DefaultHandlerModels
    ELSE /\ Len(options.ModelHandlers) <= 1
         /\ handlers.registered = (Len(options.ModelHandlers) = 1)
         /\ handlers.registered => handlers.caps = options.ModelHandlers[1]

\* C36: the registry has at most one handler for the model, a second handler
\* for it makes InitializeAPI fail, and once InitializeAPI has returned no
\* step of a request changes the registry.
C36_RegistryFixed ==
    [][/\ pc = "init" => RegistryOfOptions'
       /\ pc # "init" => handlers' = handlers /\ RegistryOfOptions']_vars

\* A request was served through the handler the API was initialized with.
C36_Witness ==
    /\ pc = "done"
    /\ req.op = "delete"
    /\ options.ModelHandlers = <<{"before", "tx"}>>
    /\ options.DefaultHandlerModels
    /\ handlers = [registered |-> TRUE, caps |-> {"before", "tx"}]
    /\ IdxEv("before.call") # {}

\* The calls a request may still make once it has written an error: the
\* rollback of its transaction.
AfterError == {"Rollback"}

\* C37: a request writes one response status, and once it has written an
\* error it reads or writes no model and calls no hook, handler or storage.
C37_OneResponseThenNothing ==
    pc = "done"
    => /\ Len(resp) = 1
       /\ resp[1].status # 0
       /\ \A i \in DOMAIN resp :
              resp[i].err # "nil"
                  => \A k \in DOMAIN trace : k > resp[i].at => trace[k].ev \in AfterError

\* C37 for the requests that do not panic.
C37_OneResponseUnlessPanic ==
    (/\ pc = "done"
     /\ \A i \in DOMAIN resp : resp[i].err # "panic"
     /\ \A k \in DOMAIN trace : trace[k].ev # "panic")
    => C37_OneResponseThenNothing

\* The update chain of an update that accepts a body returned without error
\* as the i-th call of the request.
UpdateChainDone(i) ==
    /\ pc = "done"
    /\ req.op = "update"
    /\ req.accept
    /\ i \in Idx("chain.ret", "update")
    /\ trace[i].res = "nil"

\* C38: after the update chain of an update that accepts a body succeeded, the
\* get chain runs on the handle of the update; when it fails the request is
\* answered with its error, and an update in a transaction is rolled back
\* with its relation writes.
C38_RereadOnUpdateHandle ==
    \A i \in DOMAIN trace :
        UpdateChainDone(i)
        => /\ \E j \in Idx("chain.ret", "get") : j > i
           /\ \A j \in Idx("core.call", "get") : j > i /\ trace[j].on = trace[i].on
           /\ \A j \in Idx("chain.ret", "get") :
                  /\ trace[j].on = trace[i].on
                  /\ trace[j].res # "nil"
                         => /\ Len(resp) = 1
                            /\ resp[1].err = trace[j].res
                            /\ trace[i].on = "tx"
                                   => /\ IdxEv("Rollback") # {}
                                      /\ IdxEv("Commit") = {}
                                      /\ tx = "rolledback"
                                      /\ db = pre

\* An update wrote a relation in its transaction, the read back failed and
\* the stored members are the ones before the request.
C38_Witness ==
    \E i \in DOMAIN trace :
        /\ UpdateChainDone(i)
        /\ trace[i].on = "tx"
        /\ \E j \in Idx("chain.ret", "get") : trace[j].res # "nil"
        /\ \E k \in AttachWrites : k < i /\ trace[k].res = "nil"
        /\ req.member \notin pre.members
        /\ db = pre

\* The update requests with one model in a body that was read.
UpdateOfOne == Unmarshalled /\ req.op = "update" /\ req.n = 1

\* C39: an update whose body carries an identifier other than the URL's is
\* answered with a client error and makes no call; an update whose body
\* carries no identifier is made under the URL identifier.
C39_BodyIdentifier ==
    /\ (UpdateOfOne /\ req.bodyId = "other")
           => /\ Answered(400, ErrInvalidInput)
              /\ trace = <<>>
              /\ db = pre
    /\ (UpdateOfOne /\ req.bodyId = "none")
           => \A i \in Idx("core.call", "update") : trace[i].arg = <<req.id>>

\* C39 for the URL identifiers that parse.
C39_BodyIdentifierParsed ==
    (req.id # "invalid") => C39_BodyIdentifier

\* How many entries of an include list are of the relation field.
Entries(includes, field) ==
    Cardinality({i \in DOMAIN includes : includes[i].StructField = field})

\* C40: the include list parseFieldSetAndIncludes returns has at most one entry
\* of a relation, also for a field list that names a relation more than once
\* that is not among the requested includes.
C40_OneIncludePerRelation ==
    (parsed # NoCall /\ parsed.pc # "input")
    => \A field \in RelationFields(parsed.mStruct) :
           Entries(parsed.out.includes, field) <= 1

\* C40 for the field lists that name no relation twice.
C40_OneIncludePerRelationOnce ==
    (parsed # NoCall /\ parsed.pc # "input"
        /\ \A field \in RelationFields(parsed.mStruct) : Count(parsed.fieldSet, field) <= 1)
    => \A field \in RelationFields(parsed.mStruct) :
           Entries(parsed.out.includes, field) <= 1

====
